---------------------------- MODULE Spec2Model ----------------------------
(***************************************************************************)
(* A model of the feishu-diary-bot core: the webhook event router with its *)
(* dedup cache (src/src/api/webhook.py), the conversation/session store    *)
(* (src/src/services/conversation_service.py), the text and media handlers *)
(* (src/src/handlers), the document publisher                              *)
(* (src/src/services/feishu_doc_service.py), the diary table               *)
(* (src/src/services/diary_service.py) and the language model client       *)
(* (src/src/services/llm_service.py).                                      *)
(*                                                                         *)
(* The module holds several specifications over one set of variables:      *)
(*   SpecWebhook  handle_event under any request body                      *)
(*   SpecDedup    message events, the dedup cache and the passing of time  *)
(*   SpecTurns    text turns and finish messages of one user on one day    *)
(*   SpecDays     all events of one user, one at a time, over two days     *)
(*   SpecStore    the session store under any calls and database errors    *)
(*   SpecPublish  create_or_update_diary_document and its image protocol   *)
(*   SpecSessions lookups and closes of a session, with database errors    *)
(*   SpecDiary    save_diary and delete_diary, with database errors        *)
(*   SpecIntent   analyze_intent and the routing of a text, on any text    *)
(*   SpecLlm      text turns and compositions under any endpoint outcome   *)
(*   SpecCommand  a text on its way through handle and handle_command      *)
(*   SpecConcurrent  the runs of one user interleaved at their awaits      *)
(*   SpecBlocks   _convert_content_to_blocks on any body                   *)
(*   SpecDelete   /delete runs, with remote and database errors            *)
(*   SpecSearch   chat_with_internet on prompts around the length limit    *)
(*   SpecFallback generate_diary on any two transcripts and endpoints     *)
(* Each specification leaves the variables of the other parts unchanged.   *)
(***************************************************************************)
EXTENDS Integers, Sequences, FiniteSets, TLC

VARIABLES
    \* ---- webhook.py -------------------------------------------------
    now,                 \* time.time(), in seconds
    processed_messages,  \* module-level dict: message_id -> first-seen time
    background_tasks,    \* process_message_async calls scheduled, not yet run
    last,                \* the most recent request and its HTTP response
    deliveries,          \* history: one record per dedup check of a message event
    failedIds,           \* history: ids whose handler run raised
    served,              \* history: number of requests handled
    diaries,             \* table diaries (diary_service.py): a set of rows
    \* ---- conversation_service.py, handlers ----------------------------
    clock,               \* datetime.now(), local time in hours
    tz,                  \* hours local time is ahead of UTC (CURRENT_TIMESTAMP)
    conversation,        \* table conversation: a sequence of rows, id = index
    tasks,               \* handler runs in flight, each waiting at an await
    events,              \* history: number of message events handled
    msgSeq,              \* history: number of messages passed to add_message
    appendLog,           \* history: per row id, the messages appended to it
    turns,               \* history: per row id, the chat turns started on it
    runs,                \* history: one record per finished composition run
    \* ---- feishu_doc_service.py -----------------------------------------
    publish,             \* the run of create_or_update_diary_document
    document,            \* the remote document: created, its image blocks
    attempts,            \* history: per image, the outcomes of its steps
    \* ---- services called directly ---------------------------------------
    calls                \* history: the calls made, their inputs and results

webVars == <<now, processed_messages, background_tasks, last, deliveries,
             failedIds, served>>

storeVars == <<clock, tz, conversation, tasks, events, msgSeq, appendLog,
               turns, runs>>

docVars == <<publish, document, attempts>>

vars == <<now, processed_messages, background_tasks, last, deliveries,
          failedIds, served, diaries, clock, tz, conversation, tasks, events,
          msgSeq, appendLog, turns, runs, publish, document, attempts,
          calls>>

\* ------------------------------------------------------------------------
\* Bounds of the model
\* ------------------------------------------------------------------------
MaxNow == 302
MaxDeliveries == 4
MaxRequests == 2
MaxTurns == 12
MaxEvents == 3
MaxClock == 24
MaxCalls == 3
MaxImages == 3
MaxDiaryCalls == 4

\* The clock advances by one of these steps (seconds): two short steps stay
\* inside the freshness window (150 + 150 = 300), a short and a long one
\* leave it (150 + 151 = 301).
TickSteps == {150, 151}

NoValue == "none"

\* ------------------------------------------------------------------------
\* webhook.py: payloads
\* ------------------------------------------------------------------------
MsgIds == {"om_1", "om_2"}
MsgTypes == {"text", "audio", "image", "media", "sticker"}
DocTokens == {"doc_1", "doc_2"}

\* A parsed JSON object, reduced to the keys handle_event reads.  A key that
\* is absent reads as the default of the .get() call that fetches it.
Payload(challenge, event_type, message_id, message_type, file_token) ==
    [challenge |-> challenge, event_type |-> event_type,
     message_id |-> message_id, message_type |-> message_type,
     file_token |-> file_token]

EmptyPayload == Payload(NoValue, "", "", "", "")

Payloads ==
    {EmptyPayload}
    \cup {Payload("ch_1", "", "", "", "")}
    \cup {Payload("ch_1", "im.message.receive_v1", "om_1", "text", ""),
          Payload("ch_1", "drive.file.deleted_completely_v1", "", "", "doc_1")}
    \cup {Payload(NoValue, "im.message.receive_v1", i, t, "") :
              i \in MsgIds, t \in MsgTypes}
    \cup {Payload(NoValue, "drive.file.deleted_completely_v1", "", "", f) :
              f \in DocTokens \cup {""}}
    \cup {Payload(NoValue, "im.chat.updated_v1", "", "", "")}

\* The ways decrypt_message raises.
DecryptFailures == {"no_key", "bad_base64", "bad_length", "not_json"}

\* A request body.  json: "malformed" (json.loads raises), "not_utf8"
\* (body.decode raises), "scalar" (parses to a value that is no object, so a
\* later .get raises) or "object".  encrypt: "absent", "ok" (the
\* envelope decrypts to `inner`) or a member of DecryptFailures.
Body(json, outer, encrypt, inner) ==
    [json |-> json, outer |-> outer, encrypt |-> encrypt, inner |-> inner]

MessageBodies ==
    {Body("object", Payload(NoValue, "im.message.receive_v1", i, t, ""),
          "absent", EmptyPayload) : i \in MsgIds, t \in {"text"}}
    \cup {Body("object", Payload(NoValue, "im.message.receive_v1", "om_1", "sticker", ""),
               "absent", EmptyPayload)}

Bodies ==
    {Body("malformed", EmptyPayload, "absent", EmptyPayload),
     Body("not_utf8", EmptyPayload, "absent", EmptyPayload),
     Body("scalar", EmptyPayload, "absent", EmptyPayload)}
    \cup {Body("object", p, "absent", EmptyPayload) : p \in Payloads}
    \cup {Body("object", EmptyPayload, "ok", p) : p \in Payloads}
    \cup {Body("object", p, f, EmptyPayload) :
              p \in {EmptyPayload, Payload("ch_1", "", "", "", ""),
                     Payload(NoValue, "im.message.receive_v1", "om_1", "text", "")},
              f \in DecryptFailures}

Response(status, code, msg, challenge) ==
    [status |-> status, code |-> code, msg |-> msg, challenge |-> challenge]

Success == Response(200, 0, "success", NoValue)
ClientError == Response(400, NoValue, "Invalid JSON", NoValue)
ChallengeEcho(c) == Response(200, NoValue, NoValue, c)

\* ------------------------------------------------------------------------
\* diary_service.py: the diaries table
\* ------------------------------------------------------------------------
\* A row of table diaries, reduced to the columns the core reads.
DiaryRow(id, user_id, document_id, create_date, images) ==
    [id |-> id, user_id |-> user_id, document_id |-> document_id,
     create_date |-> create_date, images |-> images]

\* SELECT * FROM diaries WHERE document_id = ?; [] when the query raises.
get_diaries_by_document_id(rows, document_id, raises) ==
    IF raises THEN {} ELSE {r \in rows : r.document_id = document_id}

\* The first definition of delete_diary, which the class does not keep:
\* True whenever the statement does not raise.
delete_diary_first(rows, diary_id, raises) ==
    IF raises
    THEN [rows |-> rows, ok |-> FALSE]
    ELSE [rows |-> {r \in rows : r.id # diary_id}, ok |-> TRUE]

\* The second definition of delete_diary (the one the class keeps):
\* DELETE FROM diaries WHERE id = ?, True iff a row was deleted, False when
\* the statement raises.
delete_diary(rows, diary_id, raises) ==
    IF raises
    THEN [rows |-> rows, ok |-> FALSE]
    ELSE [rows |-> {r \in rows : r.id # diary_id},
          ok |-> \E r \in rows : r.id = diary_id]

\* ------------------------------------------------------------------------
\* webhook.py: the dedup cache
\* ------------------------------------------------------------------------
FreshnessWindow == 300

\* expired_keys = [k for k, v in processed_messages.items()
\*                 if current_time - v > 300]; del each.
PurgeExpired(pm, current_time) ==
    [k \in {k \in DOMAIN pm : ~(current_time - pm[k] > FreshnessWindow)} |-> pm[k]]

\* A variant of is_duplicate_message in which a duplicate hit refreshes the
\* entry's timestamp.
is_duplicate_message_refreshing(pm, message_id, current_time) ==
    LET kept == PurgeExpired(pm, current_time)
    IN  [dup |-> message_id \in DOMAIN kept,
         pm |-> [k \in DOMAIN kept \cup {message_id} |->
                    IF k = message_id THEN current_time ELSE kept[k]]]

is_duplicate_message(pm, message_id, current_time) ==
    LET kept == PurgeExpired(pm, current_time)
    IN  IF message_id \in DOMAIN kept
        THEN [dup |-> TRUE, pm |-> kept]
        ELSE [dup |-> FALSE,
              pm |-> [k \in DOMAIN kept \cup {message_id} |->
                         IF k = message_id THEN current_time ELSE kept[k]]]

\* ------------------------------------------------------------------------
\* webhook.py: decrypt_message and handle_event
\* ------------------------------------------------------------------------
\* data after the "encrypt" branch: the decrypted object when decrypt_message
\* returns, the body's own object when it raises (the exception is logged and
\* handle_event goes on with the envelope).
decrypt_message(body) ==
    IF body.encrypt = "ok" THEN [ok |-> TRUE, data |-> body.inner]
    ELSE [ok |-> FALSE, data |-> body.outer]

EventData(body) ==
    IF body.encrypt = "absent" THEN body.outer ELSE decrypt_message(body).data

Delivery(id, at, dup, scheduled, resp, afterFailure) ==
    [id |-> id, at |-> at, dup |-> dup, scheduled |-> scheduled, resp |-> resp,
     afterFailure |-> afterFailure]

Request(body, resp, scheduled) ==
    [body |-> body, resp |-> resp, scheduled |-> scheduled]

Task(message_id, message_type) ==
    [message_id |-> message_id, message_type |-> message_type]

\* The reply of a request that touches nothing.
Answer(body, resp) ==
    /\ last' = Request(body, resp, FALSE)
    /\ UNCHANGED <<processed_messages, background_tasks, deliveries, diaries,
                   calls>>

MessageEvent(body, data) ==
    LET chk == is_duplicate_message(processed_messages, data.message_id, now)
    IN  /\ processed_messages' = chk.pm
        /\ deliveries' = Append(deliveries,
                Delivery(data.message_id, now, chk.dup, ~chk.dup, Success,
                         data.message_id \in failedIds))
        /\ IF chk.dup
           THEN /\ background_tasks' = background_tasks
                /\ last' = Request(body, Success, FALSE)
           ELSE /\ background_tasks' = Append(background_tasks,
                        Task(data.message_id, data.message_type))
                /\ last' = Request(body, Success, TRUE)
        /\ UNCHANGED <<diaries, calls>>

\* One handling of a deleted-document event: the token, whether the lookup
\* raised, and the ids of the rows whose delete_diary returned False.
DeletedCall(file_token, raised, failed) ==
    [op |-> "deleted_event", file_token |-> file_token, raised |-> raised,
     failed |-> failed]

\* A variant of DeletedEvent that surfaces a failed row deletion in the reply.
DeletedEventSurfacing(body, data) ==
    /\ UNCHANGED <<processed_messages, background_tasks, deliveries>>
    /\ IF data.file_token = ""
       THEN /\ UNCHANGED diaries
            /\ calls' = Append(calls, DeletedCall("", FALSE, {}))
            /\ last' = Request(body, Success, FALSE)
       ELSE \E lookupRaises \in BOOLEAN :
              LET found == get_diaries_by_document_id(diaries, data.file_token,
                                                      lookupRaises)
              IN  \E failing \in SUBSET found :
                    /\ calls' = Append(calls,
                           DeletedCall(data.file_token, lookupRaises,
                                       {r.id : r \in failing}))
                    /\ diaries' = {r \in diaries :
                                     r \notin found \/ r \in failing}
                    /\ last' = Request(body,
                             IF failing = {} THEN Success
                             ELSE Response(200, 1, "delete failed", NoValue),
                             FALSE)

\* A variant of DeletedEvent that deletes with delete_diaries_by_user: every
\* row of the users who own a matching row.
DeletedEventByUser(body, data) ==
    /\ last' = Request(body, Success, FALSE)
    /\ UNCHANGED <<processed_messages, background_tasks, deliveries>>
    /\ IF data.file_token = ""
       THEN /\ UNCHANGED diaries
            /\ calls' = Append(calls, DeletedCall("", FALSE, {}))
       ELSE \E lookupRaises \in BOOLEAN :
              LET found == get_diaries_by_document_id(diaries, data.file_token,
                                                      lookupRaises)
                  owners == {r.user_id : r \in found}
              IN  /\ calls' = Append(calls,
                         DeletedCall(data.file_token, lookupRaises, {}))
                  /\ diaries' = {r \in diaries : r.user_id \notin owners}

\* drive.file.deleted_completely_v1: each matching row is deleted on its own;
\* a delete that fails is logged and the loop goes on.
DeletedEvent(body, data) ==
    /\ last' = Request(body, Success, FALSE)
    /\ UNCHANGED <<processed_messages, background_tasks, deliveries>>
    /\ IF data.file_token = ""
       THEN /\ UNCHANGED diaries
            /\ calls' = Append(calls, DeletedCall("", FALSE, {}))
       ELSE \E lookupRaises \in BOOLEAN :
              LET found == get_diaries_by_document_id(diaries, data.file_token,
                                                      lookupRaises)
              IN  \E failing \in SUBSET found :
                    /\ calls' = Append(calls,
                           DeletedCall(data.file_token, lookupRaises,
                                       {r.id : r \in failing}))
                    /\ diaries' = {r \in diaries :
                                     r \notin found \/ r \in failing}

\* A variant of handle_event that looks at the event type before the
\* challenge.
handle_event_event_first(body) ==
    /\ served' = served + 1
    /\ UNCHANGED <<now, failedIds>>
    /\ UNCHANGED <<storeVars, docVars>>
    /\ CASE body.json = "malformed" -> Answer(body, ClientError)
         [] body.json \in {"not_utf8", "scalar"} -> Answer(body, Success)
         [] OTHER ->
              LET data == EventData(body)
              IN  IF data.event_type = "im.message.receive_v1"
                  THEN MessageEvent(body, data)
                  ELSE IF data.event_type = "drive.file.deleted_completely_v1"
                  THEN DeletedEvent(body, data)
                  ELSE IF data.challenge # NoValue
                  THEN Answer(body, ChallengeEcho(data.challenge))
                  ELSE Answer(body, Success)

handle_event(body) ==
    /\ served' = served + 1
    /\ UNCHANGED <<now, failedIds>>
    /\ UNCHANGED <<storeVars, docVars>>
    /\ CASE body.json = "malformed" -> Answer(body, ClientError)
         [] body.json \in {"not_utf8", "scalar"} -> Answer(body, Success)
         [] OTHER ->
              LET data == EventData(body)
              IN  IF data.challenge # NoValue
                  THEN Answer(body, ChallengeEcho(data.challenge))
                  ELSE IF data.event_type = "im.message.receive_v1"
                  THEN MessageEvent(body, data)
                  ELSE IF data.event_type = "drive.file.deleted_completely_v1"
                  THEN DeletedEvent(body, data)
                  ELSE Answer(body, Success)

\* Any request.
HandleEvent ==
    /\ served < MaxRequests
    /\ \E body \in Bodies : handle_event(body)

\* A delivery (or redelivery) of a message event.
DeliverMessage ==
    /\ served < MaxDeliveries
    /\ \E body \in MessageBodies : handle_event(body)

\* One run of process_message_async: whether the handler met an exception,
\* whether an error was logged, whether a chat reply was sent to the user,
\* whether an exception left the task.
TaskCall(t, raised, logged, replied, escaped) ==
    [op |-> "task", message_id |-> t.message_id,
     message_type |-> t.message_type, raised |-> raised, logged |-> logged,
     replied |-> replied, escaped |-> escaped]

\* Whether the handler of the message type sends a chat reply.  Without an
\* exception the text and media handlers do, the voice handler does not.
\* With one, the except blocks of TextHandler.handle, generate_diary and
\* the media handlers log and return; only the except blocks of some
\* commands (/query, /list, /cleantest, /delete) send a reply.
Replies(message_type, failed) ==
    IF message_type = "text" THEN (IF failed THEN BOOLEAN ELSE {TRUE})
    ELSE IF message_type \in {"image", "media"} THEN {~failed}
    ELSE {FALSE}

\* A variant of process_message_async that forgets the message id when the
\* handler raised, so that a redelivery is handled again.
process_message_async_retry(i, raised) ==
    LET t == background_tasks[i]
        failed == raised /\ t.message_type \in {"text", "audio", "image", "media"}
    IN  /\ background_tasks' =
              SubSeq(background_tasks, 1, i - 1)
              \o SubSeq(background_tasks, i + 1, Len(background_tasks))
        /\ failedIds' = IF failed THEN failedIds \cup {t.message_id} ELSE failedIds
        /\ processed_messages' =
              IF failed
              THEN [k \in DOMAIN processed_messages \ {t.message_id} |->
                       processed_messages[k]]
              ELSE processed_messages
        /\ \E replied \in Replies(t.message_type, failed) :
              calls' = Append(calls, TaskCall(t, failed, failed, replied, FALSE))
        /\ UNCHANGED <<now, last, deliveries, served, diaries>>
        /\ UNCHANGED <<storeVars, docVars>>

\* A scheduled process_message_async call runs: it dispatches on the message
\* type and catches whatever the handler raises.  What the handler does to
\* the session store is the subject of the session specification; here only
\* its outcome is kept.
process_message_async(i, raised) ==
    LET t == background_tasks[i]
        failed == raised /\ t.message_type \in {"text", "audio", "image", "media"}
    IN  /\ background_tasks' =
              SubSeq(background_tasks, 1, i - 1)
              \o SubSeq(background_tasks, i + 1, Len(background_tasks))
        /\ failedIds' = IF failed THEN failedIds \cup {t.message_id}
                        ELSE failedIds
        /\ \E replied \in Replies(t.message_type, failed) :
              calls' = Append(calls, TaskCall(t, failed, failed, replied, FALSE))
        /\ UNCHANGED <<now, processed_messages, last, deliveries, served,
                       diaries>>
        /\ UNCHANGED <<storeVars, docVars>>

RunTask ==
    \E i \in 1..Len(background_tasks), raised \in BOOLEAN :
        process_message_async(i, raised)

Tick ==
    \E d \in TickSteps :
        /\ now + d <= MaxNow
        /\ now' = now + d
        /\ UNCHANGED <<processed_messages, background_tasks, last, deliveries,
                       failedIds, served, diaries>>
        /\ UNCHANGED <<storeVars, docVars, calls>>

\* Rows left by earlier composition runs: one published, one whose publish
\* failed (document_id NULL).
SeedDiaries ==
    {DiaryRow("d_1", "ou_1", "doc_1", 0, <<>>),
     DiaryRow("d_2", "ou_1", NoValue, 0, <<>>),
     DiaryRow("d_3", "ou_2", "doc_1", 0, <<>>),
     DiaryRow("d_4", "ou_1", "doc_2", 0, <<>>)}

\* ---------------------------------------------------------------------
\* conversation_service.py: the session store.
\* ---------------------------------------------------------------------

HoursPerDay == 24
StaleHours == 24
CompactAbove == 20
KeepRecent == 18

Users == {"ou_1"}

\* datetime.now().strftime("%Y-%m-%d"): the local calendar day.
Today(clk) == clk \div HoursPerDay

\* CURRENT_TIMESTAMP of sqlite: the UTC time, tz hours behind the local one.
UtcStamp(clk, zone) == clk - zone

\* A stored message.  The timestamp field the code adds is written and
\* never read (get_context strips it), it is left out.
Message(role, content) == [role |-> role, content |-> content]

SystemMessage == Message("system", 0)

MediaInfo(type, key) == [type |-> type, image_key |-> key]

\* A row of table conversation; born is the local time of the INSERT.
ConvRow(id, user_id, session_date, messages, media_files, status, updated_at, born) ==
    [id |-> id, user_id |-> user_id, session_date |-> session_date,
     messages |-> messages, media_files |-> media_files, status |-> status,
     updated_at |-> updated_at, born |-> born]

\* The dict a session lookup returns.
Session(id, messages, media_files) ==
    [id |-> id, messages |-> messages, media_files |-> media_files]

\* The database errors one store call meets: of the SELECT, of the UPDATE
\* that closes, of the INSERT, of the UPDATE that saves.
Faults(fetch, close, insert, update) ==
    [fetch |-> fetch, close |-> close, insert |-> insert, update |-> update]

NoFault == Faults(FALSE, FALSE, FALSE, FALSE)

\* The id None of a session whose INSERT failed; row ids start at 1.
NoId == 0

ActiveIds(conv, user_id, day) ==
    {i \in 1..Len(conv) : /\ conv[i].user_id = user_id
                          /\ conv[i].session_date = day
                          /\ conv[i].status = "active"}

MinOf(S) == CHOOSE x \in S : \A y \in S : x <= y

\* UPDATE conversation SET status = 'closed' WHERE user_id, session_date
\* = today, status = 'active'; an error is swallowed.
\* The variant that closes the active sessions of every day.
close_session_any_day(conv, user_id, clk, raises) ==
    IF raises THEN conv
    ELSE [i \in 1..Len(conv) |->
             IF conv[i].user_id = user_id /\ conv[i].status = "active"
             THEN [conv[i] EXCEPT !.status = "closed"]
             ELSE conv[i]]

close_session(conv, user_id, clk, raises) ==
    IF raises THEN conv
    ELSE [i \in 1..Len(conv) |->
             IF i \in ActiveIds(conv, user_id, Today(clk))
             THEN [conv[i] EXCEPT !.status = "closed"]
             ELSE conv[i]]

\* What close_session returns: True, and False when the UPDATE raised.
close_session_returns(raises) == ~raises

\* INSERT of a fresh active row holding the system message; when the INSERT
\* fails the same session is returned with id None and nothing is stored.
create_new_session(conv, user_id, session_date, clk, zone, raises) ==
    IF raises
    THEN [conv |-> conv, session |-> Session(NoId, <<SystemMessage>>, <<>>)]
    ELSE LET id == Len(conv) + 1
         IN  [conv |-> Append(conv,
                          ConvRow(id, user_id, session_date, <<SystemMessage>>,
                                  <<>>, "active", UtcStamp(clk, zone), clk)),
              session |-> Session(id, <<SystemMessage>>, <<>>)]

\* The variant that hands back a session closed today until it is stale.
get_or_create_session_reopening(conv, user_id, clk, zone, f) ==
    LET day    == Today(clk)
        mine   == {i \in 1..Len(conv) : /\ conv[i].user_id = user_id
                                        /\ conv[i].session_date = day}
        fresh  == {i \in mine : ~(clk - conv[i].updated_at > StaleHours)}
    IN  IF fresh # {}
        THEN LET row == conv[MinOf(fresh)]
             IN  [conv |-> conv,
                  session |-> Session(row.id, row.messages, row.media_files)]
        ELSE create_new_session(close_session(conv, user_id, clk, f.close),
                                user_id, day, clk, zone, f.insert)

\* The variant without the check of updated_at.
get_or_create_session_keeping(conv, user_id, clk, zone, f) ==
    LET day    == Today(clk)
        active == ActiveIds(conv, user_id, day)
    IN  IF f.fetch
        THEN create_new_session(conv, user_id, day, clk, zone, f.insert)
        ELSE IF active # {}
        THEN LET row == conv[MinOf(active)]
             IN  [conv |-> conv,
                  session |-> Session(row.id, row.messages, row.media_files)]
        ELSE create_new_session(conv, user_id, day, clk, zone, f.insert)

get_or_create_session(conv, user_id, clk, zone, f) ==
    LET day    == Today(clk)
        active == ActiveIds(conv, user_id, day)
    IN  IF f.fetch
        THEN create_new_session(conv, user_id, day, clk, zone, f.insert)
        ELSE IF active # {}
        THEN LET row == conv[MinOf(active)]
             IN  IF clk - row.updated_at > StaleHours
                 THEN create_new_session(
                          close_session(conv, user_id, clk, f.close),
                          user_id, day, clk, zone, f.insert)
                 ELSE [conv |-> conv,
                       session |-> Session(row.id, row.messages,
                                           row.media_files)]
        ELSE create_new_session(conv, user_id, day, clk, zone, f.insert)

LastOf(s, n) == IF Len(s) <= n THEN s ELSE SubSeq(s, Len(s) - n + 1, Len(s))

IsSystem(m) == m.role = "system"

IsNotSystem(m) == m.role # "system"

\* The variant that keeps the most recent messages whatever their role.
CompactDroppingSystem(messages) ==
    IF Len(messages) > CompactAbove
    THEN LastOf(messages, KeepRecent + 1)
    ELSE messages

\* The variant that keeps the messages above the threshold too: the
\* system messages and the 20 most recent other messages.
CompactKeepingThreshold(messages) ==
    IF Len(messages) > CompactAbove
    THEN SelectSeq(messages, IsSystem)
             \o LastOf(SelectSeq(messages, IsNotSystem), CompactAbove)
    ELSE messages

\* Above 20 messages only the system messages and the 18 most recent
\* other messages are kept.
Compact(messages) ==
    IF Len(messages) > CompactAbove
    THEN SelectSeq(messages, IsSystem)
             \o LastOf(SelectSeq(messages, IsNotSystem), KeepRecent)
    ELSE messages

\* The variant with WHERE user_id = (the user of row id): every row of
\* the user is written.
UpdateRowsOfUser(conv, id, column, value, clk, zone) ==
    [i \in 1..Len(conv) |->
        IF \E j \in 1..Len(conv) :
              conv[j].id = id /\ conv[j].user_id = conv[i].user_id
        THEN [conv[i] EXCEPT ![column] = value,
                             !.updated_at = UtcStamp(clk, zone)]
        ELSE conv[i]]

\* UPDATE conversation SET <column> = ?, updated_at = CURRENT_TIMESTAMP
\* WHERE id = ?; with id None no row matches.
UpdateRow(conv, id, column, value, clk, zone) ==
    [i \in 1..Len(conv) |->
        IF conv[i].id = id
        THEN [conv[i] EXCEPT ![column] = value,
                             !.updated_at = UtcStamp(clk, zone)]
        ELSE conv[i]]

\* Each operation returns the table it leaves, the id of the session it
\* worked on and what the method returns.
add_message(conv, user_id, role, content, clk, zone, f) ==
    LET got      == get_or_create_session(conv, user_id, clk, zone, f)
        messages == Compact(Append(got.session.messages,
                                   Message(role, content)))
    IN  IF f.update
        THEN [conv |-> got.conv, id |-> got.session.id, ok |-> FALSE]
        ELSE [conv |-> UpdateRow(got.conv, got.session.id, "messages",
                                 messages, clk, zone),
              id |-> got.session.id, ok |-> TRUE]

add_media_to_context(conv, user_id, media_info, clk, zone, f) ==
    LET got == get_or_create_session(conv, user_id, clk, zone, f)
        media_files == Append(got.session.media_files, media_info)
    IN  IF f.update
        THEN [conv |-> got.conv, id |-> got.session.id, ok |-> FALSE]
        ELSE [conv |-> UpdateRow(got.conv, got.session.id, "media_files",
                                 media_files, clk, zone),
              id |-> got.session.id, ok |-> TRUE]

get_media_files(conv, user_id, clk, zone, f) ==
    LET got == get_or_create_session(conv, user_id, clk, zone, f)
    IN  [conv |-> got.conv, id |-> got.session.id,
         media_files |-> got.session.media_files]

clear_media_files(conv, user_id, clk, zone, f) ==
    LET got == get_or_create_session(conv, user_id, clk, zone, f)
    IN  IF f.update
        THEN [conv |-> got.conv, id |-> got.session.id, ok |-> FALSE]
        ELSE [conv |-> UpdateRow(got.conv, got.session.id, "media_files",
                                 <<>>, clk, zone),
              id |-> got.session.id, ok |-> TRUE]

get_context(conv, user_id, clk, zone, f) ==
    LET got == get_or_create_session(conv, user_id, clk, zone, f)
    IN  [conv |-> got.conv, id |-> got.session.id,
         context |-> got.session.messages]

\* ---------------------------------------------------------------------
\* handlers/text_handler.py: one handler run is a chain of steps, one per
\* stretch of code between two awaits that suspend (the language-model
\* call, the document call, the reply).
\* ---------------------------------------------------------------------

\* str(uuid4()) of a run, the document id the platform gives its document.
Uuid(n) == "uuid_" \o ToString(n)

DocumentId(n) == "docx_" \o ToString(n)

\* A handler run waiting at pc: the session id and transcript it read, the
\* chat turns that session had, the images and document it holds.
Handler(tid, kind, user_id, pc, sid, context, k, images, document_id) ==
    [tid |-> tid, kind |-> kind, user_id |-> user_id, pc |-> pc, sid |-> sid,
     context |-> context, k |-> k, images |-> images,
     document_id |-> document_id]

Without(s, i) == [j \in 1..(Len(s) - 1) |-> IF j < i THEN s[j] ELSE s[j + 1]]

At(s, i, v) == [s EXCEPT ![i] = v]

MaxOf(a, b) == IF a >= b THEN a ELSE b

LogOf(log, id, empty) ==
    IF id \in DOMAIN log THEN log[id] ELSE empty

\* The history of row id grows by one entry.
Logged(log, id, entry) ==
    IF id = NoId THEN log
    ELSE [i \in 1..MaxOf(Len(log), id) |->
             IF i = id THEN Append(LogOf(log, i, <<>>), entry)
             ELSE LogOf(log, i, <<>>)]

\* One more chat turn on row id.
Counted(cnt, id) ==
    IF id = NoId THEN cnt
    ELSE [i \in 1..MaxOf(Len(cnt), id) |->
             IF i = id THEN LogOf(cnt, i, 0) + 1 ELSE LogOf(cnt, i, 0)]

\* TextHandler.handle, a text that is neither a command nor a finish
\* message: the user message is saved, the transcript read, the guiding
\* question awaited.
HandleText(user_id) ==
    LET saved == add_message(conversation, user_id, "user", msgSeq + 1,
                             clock, tz, NoFault)
        read  == get_context(saved.conv, user_id, clock, tz, NoFault)
    IN  /\ conversation' = read.conv
        /\ tasks' = Append(tasks,
                        Handler(events + 1, "chat", user_id, "llm", read.id,
                                read.context, 0, <<>>, NoValue))
        /\ events' = events + 1
        /\ msgSeq' = msgSeq + 1
        /\ appendLog' = Logged(appendLog, saved.id,
                               Message("user", msgSeq + 1))
        /\ turns' = Counted(turns, saved.id)
        /\ UNCHANGED <<clock, tz, runs, diaries>>
        /\ UNCHANGED <<webVars, docVars, calls>>

\* The variant that sends the reply and does not save it.
TextRepliedUnsaved(i) ==
    /\ tasks[i].kind = "chat" /\ tasks[i].pc = "llm"
    /\ tasks' = At(tasks, i, [tasks[i] EXCEPT !.pc = "send"])
    /\ UNCHANGED <<conversation, msgSeq, appendLog>>
    /\ UNCHANGED <<clock, tz, events, turns, runs, diaries>>
    /\ UNCHANGED <<webVars, docVars, calls>>

\* A variant that saves the guiding question onto the transcript the run
\* read before the await.
TextRepliedFromSnapshot(i) ==
    /\ tasks[i].kind = "chat" /\ tasks[i].pc = "llm"
    /\ conversation' = UpdateRow(conversation, tasks[i].sid, "messages",
                                 Compact(Append(tasks[i].context,
                                                Message("assistant",
                                                        msgSeq + 1))),
                                 clock, tz)
    /\ appendLog' = Logged(appendLog, tasks[i].sid,
                           Message("assistant", msgSeq + 1))
    /\ msgSeq' = msgSeq + 1
    /\ tasks' = At(tasks, i, [tasks[i] EXCEPT !.pc = "send"])
    /\ UNCHANGED <<clock, tz, events, turns, runs, diaries>>
    /\ UNCHANGED <<webVars, docVars, calls>>

\* The guiding question came back: it is saved, then sent.
TextReplied(i) ==
    /\ tasks[i].kind = "chat" /\ tasks[i].pc = "llm"
    /\ LET saved == add_message(conversation, tasks[i].user_id, "assistant",
                                msgSeq + 1, clock, tz, NoFault)
       IN  /\ conversation' = saved.conv
           /\ appendLog' = Logged(appendLog, saved.id,
                                  Message("assistant", msgSeq + 1))
    /\ msgSeq' = msgSeq + 1
    /\ tasks' = At(tasks, i, [tasks[i] EXCEPT !.pc = "send"])
    /\ UNCHANGED <<clock, tz, events, turns, runs, diaries>>
    /\ UNCHANGED <<webVars, docVars, calls>>

\* The reply was sent (send_text_message never raises): the run returns.
Sent(i) ==
    /\ tasks[i].pc = "send"
    /\ tasks[i].kind \in {"chat", "empty"}
    /\ tasks' = Without(tasks, i)
    /\ UNCHANGED <<clock, tz, conversation, events, msgSeq, appendLog, turns,
                   runs, diaries>>
    /\ UNCHANGED <<webVars, docVars, calls>>

\* diary_service.save_diary: INSERT OR REPLACE by id, create_date is the
\* day of the call; an error is swallowed.
save_diary(rows, diary_id, user_id, images, document_id, clk, raises) ==
    IF raises THEN rows
    ELSE {r \in rows : r.id # diary_id}
             \cup {DiaryRow(diary_id, user_id, document_id, Today(clk),
                            images)}

IsImage(m) == m.type = "image"

\* [m.get("url") ...]: the media_info of an image carries no url key.
ImageUrls(images) == [j \in 1..Len(images) |-> NoValue]

\* The reply of a composition run: the document link when there is a
\* document, a notice when there is none, and in both cases the diary text.
Reply(document_id) ==
    [link |-> document_id, notice |-> document_id = NoValue, diary |-> TRUE]

\* What a finished composition run leaves: the row it composed from as it
\* is when the run returns, the diary rows that carry the run's id, the
\* number of sessions there are.
Run(tid, user_id, sid, k, context, document_id, row, rows, n) ==
    [tid |-> tid, user_id |-> user_id, sid |-> sid, k |-> k,
     context |-> context, document_id |-> document_id, row |-> row,
     rows |-> rows, n |-> n, reply |-> Reply(document_id)]

\* The keys of a list of media.
KeysOf(media_files) == {media_files[n].image_key : n \in DOMAIN media_files}

\* Media handed to the store by a media event ("add_media"), or read from
\* it by a composition run ("drain").
MediaCall(op, user_id, keys) == [op |-> op, user_id |-> user_id, keys |-> keys]

\* TextHandler.generate_diary, reached by a finish message or by /diary:
\* the transcript is read; with nothing but the system message the run
\* only replies, else the diary text is awaited.
GenerateDiary(user_id) ==
    LET read == get_context(conversation, user_id, clock, tz, NoFault)
    IN  /\ conversation' = read.conv
        /\ tasks' = Append(tasks,
                        Handler(events + 1,
                                IF Len(read.context) <= 1 THEN "empty"
                                ELSE "compose",
                                user_id,
                                IF Len(read.context) <= 1 THEN "send"
                                ELSE "llm",
                                read.id, read.context,
                                LogOf(turns, read.id, 0), <<>>, NoValue))
        /\ events' = events + 1
        /\ UNCHANGED <<clock, tz, msgSeq, appendLog, turns, runs, diaries>>
        /\ UNCHANGED <<webVars, docVars, calls>>

\* The diary text came back: the pending media are read, the images kept
\* for the document, the pending media cleared, the document call awaited.
DiaryDrafted(i) ==
    /\ tasks[i].kind = "compose" /\ tasks[i].pc = "llm"
    /\ LET read    == get_media_files(conversation, tasks[i].user_id, clock,
                                      tz, NoFault)
           cleared == clear_media_files(read.conv, tasks[i].user_id, clock,
                                        tz, NoFault)
       IN  /\ conversation' = cleared.conv
           /\ tasks' = At(tasks, i,
                          [tasks[i] EXCEPT
                              !.pc = "publish",
                              !.images = SelectSeq(read.media_files, IsImage)])
           /\ calls' = Append(calls,
                  MediaCall("drain", tasks[i].user_id,
                            KeysOf(read.media_files)))
    /\ UNCHANGED <<clock, tz, events, msgSeq, appendLog, turns, runs, diaries>>
    /\ UNCHANGED <<webVars, docVars>>

\* The document call came back, with a document or with None: the diary
\* row is saved, the reply awaited.
DiaryPublished(i) ==
    /\ tasks[i].kind = "compose" /\ tasks[i].pc = "publish"
    /\ \E document_id \in {NoValue, DocumentId(tasks[i].tid)} :
        /\ diaries' = save_diary(diaries, Uuid(tasks[i].tid),
                                 tasks[i].user_id, ImageUrls(tasks[i].images),
                                 document_id, clock, FALSE)
        /\ tasks' = At(tasks, i, [tasks[i] EXCEPT
                                     !.pc = "send",
                                     !.document_id = document_id])
    /\ UNCHANGED <<clock, tz, conversation, events, msgSeq, appendLog, turns,
                   runs>>
    /\ UNCHANGED <<webVars, docVars, calls>>

\* The reply was sent: the session of today is closed, the run returns.
DiarySent(i) ==
    /\ tasks[i].kind = "compose" /\ tasks[i].pc = "send"
    /\ conversation' = close_session(conversation, tasks[i].user_id, clock,
                                     FALSE)
    /\ runs' = Append(runs,
                   Run(tasks[i].tid, tasks[i].user_id, tasks[i].sid,
                       tasks[i].k, tasks[i].context, tasks[i].document_id,
                       conversation'[tasks[i].sid],
                       {r \in diaries : r.id = Uuid(tasks[i].tid)},
                       Len(conversation')))
    /\ tasks' = Without(tasks, i)
    /\ UNCHANGED <<clock, tz, events, msgSeq, appendLog, turns, diaries>>
    /\ UNCHANGED <<webVars, docVars, calls>>

\* MediaHandler.handle_image / handle_video: the media is added to the
\* pending media, a user message describing it is saved, the reply awaited.
HandleMedia(user_id, type) ==
    LET added == add_media_to_context(conversation, user_id,
                                      MediaInfo(type, events + 1), clock, tz,
                                      NoFault)
        saved == add_message(added.conv, user_id, "user", msgSeq + 1, clock,
                             tz, NoFault)
    IN  /\ conversation' = saved.conv
        /\ tasks' = Append(tasks,
                        Handler(events + 1, type, user_id, "send", saved.id,
                                <<>>, 0, <<>>, NoValue))
        /\ events' = events + 1
        /\ msgSeq' = msgSeq + 1
        /\ appendLog' = Logged(appendLog, saved.id,
                               Message("user", msgSeq + 1))
        /\ calls' = Append(calls, MediaCall("add_media", user_id,
                                            {events + 1}))
        /\ UNCHANGED <<clock, tz, turns, runs, diaries>>
        /\ UNCHANGED <<webVars, docVars>>

\* TextHandler.start_new_session (/new): the session of today is closed, a
\* session is looked up again, the welcome message awaited.
StartNewSession(user_id) ==
    LET closed == close_session(conversation, user_id, clock, FALSE)
        got    == get_or_create_session(closed, user_id, clock, tz, NoFault)
    IN  /\ conversation' = got.conv
        /\ tasks' = Append(tasks,
                        Handler(events + 1, "new", user_id, "send",
                                got.session.id, <<>>, 0, <<>>, NoValue))
        /\ events' = events + 1
        /\ UNCHANGED <<clock, tz, msgSeq, appendLog, turns, runs, diaries>>
        /\ UNCHANGED <<webVars, docVars, calls>>

\* The reply of a media event or the welcome of /new was sent: it is saved
\* as an assistant message, the run returns.
SentThenSaved(i) ==
    /\ tasks[i].pc = "send"
    /\ tasks[i].kind \in {"image", "video", "new"}
    /\ LET saved == add_message(conversation, tasks[i].user_id, "assistant",
                                msgSeq + 1, clock, tz, NoFault)
       IN  /\ conversation' = saved.conv
           /\ appendLog' = Logged(appendLog, saved.id,
                                  Message("assistant", msgSeq + 1))
    /\ msgSeq' = msgSeq + 1
    /\ tasks' = Without(tasks, i)
    /\ UNCHANGED <<clock, tz, events, turns, runs, diaries>>
    /\ UNCHANGED <<webVars, docVars, calls>>

\* Local time passes, between any two steps.
HourSteps == {7, 17}

Hours ==
    \E d \in HourSteps :
        /\ clock + d <= MaxClock
        /\ clock' = clock + d
        /\ UNCHANGED <<tz, conversation, tasks, events, msgSeq, appendLog,
                       turns, runs, diaries>>
        /\ UNCHANGED <<webVars, docVars, calls>>

\* The events of one user, handled one after another.
OneAtATime == tasks = <<>>

TextEvent == \E user_id \in Users : HandleText(user_id)

FinishEvent == \E user_id \in Users : GenerateDiary(user_id)

TextResumes == \E i \in DOMAIN tasks : TextReplied(i)

ReplySent == \E i \in DOMAIN tasks : Sent(i)

DiaryResumes == \E i \in DOMAIN tasks : DiaryDrafted(i)

DocumentReturns == \E i \in DOMAIN tasks : DiaryPublished(i)

DiaryReplySent == \E i \in DOMAIN tasks : DiarySent(i)

MediaEvent ==
    \E user_id \in Users, type \in {"image", "video"} :
        HandleMedia(user_id, type)

NewEvent == \E user_id \in Users : StartNewSession(user_id)

MediaReplySent == \E i \in DOMAIN tasks : SentThenSaved(i)

\* No conversation yet, no handler in flight.
IdleStore ==
    /\ clock = 0 /\ tz = 0 /\ conversation = <<>> /\ tasks = <<>>
    /\ events = 0 /\ msgSeq = 0 /\ appendLog = <<>> /\ turns = <<>>
    /\ runs = <<>>

\* ---------------------------------------------------------------------
\* services/feishu_doc_service.py: publishing a diary document.  Every
\* request to the platform ends in one of these ways: 200 with code 0 and
\* the expected fields, a status other than 200, 200 with an error code,
\* 200 with a body that is not the expected JSON, no response at all.
\* ---------------------------------------------------------------------

Outcomes == {"ok", "status", "code", "malformed", "exception"}

\* The download is not parsed: 200 with bytes, a status other than 200,
\* no response, 200 with no bytes.
DownloadOutcomes == {"ok", "status", "exception", "empty"}

\* An image handed to the publisher; complete when it carries both an
\* image_key and a message_id.
Image(key, complete) == [image_key |-> key, complete |-> complete]

ImageLists ==
    UNION {[1..n -> BOOLEAN] : n \in 0..MaxImages}

ImagesOf(flags) == [j \in DOMAIN flags |-> Image(j, flags[j])]

Block(image, bound) == [image |-> image, bound |-> bound]

\* The publisher at pc, working on image i; attach says the image loop was
\* entered, result is what the call returns.
Publish(pc, images, i, attach, result) ==
    [pc |-> pc, images |-> images, i |-> i, attach |-> attach,
     result |-> result]

At_(pc) == publish.pc = pc

Goto(pc) == publish' = [publish EXCEPT !.pc = pc]

Return(result) == publish' = [publish EXCEPT !.pc = "done", !.result = result]

\* for img in images: the next image from i on that is not skipped for a
\* missing key, or the end of the loop.
LoopFrom(p, i) ==
    LET rest == {j \in i..Len(p.images) : p.images[j].complete}
    IN  IF rest = {}
        THEN [p EXCEPT !.pc = "done"]
        ELSE [p EXCEPT !.pc = "block", !.i = MinOf(rest)]

NextImage(i) == publish' = LoopFrom(publish, i)

Attempted(o) ==
    attempts' = [attempts EXCEPT ![publish.i] = Append(@, o)]

\* A request of a publish run to the platform: the step, and the image
\* it is for (0 for the steps before the image loop).
StepCall(step, image) == [op |-> "step", step |-> step, image |-> image]

\* create_document: the token; without it the call returns None.
GetToken ==
    /\ At_("token")
    /\ calls' = Append(calls, StepCall("token", 0))
    /\ \E o \in Outcomes :
          IF o = "ok" THEN Goto("create") ELSE Return(NoValue)
    /\ UNCHANGED <<document, attempts, webVars, storeVars, diaries>>

\* create_document: the document; any failure returns None.
CreateDocument ==
    /\ At_("create")
    /\ calls' = Append(calls, StepCall("create", 0))
    /\ \E o \in Outcomes :
          IF o = "ok"
          THEN /\ publish' = [publish EXCEPT !.pc = "content",
                                             !.result = DocumentId(1)]
               /\ document' = [document EXCEPT !.created = TRUE]
          ELSE /\ Return(NoValue)
               /\ UNCHANGED document
    /\ UNCHANGED <<attempts, webVars, storeVars, diaries>>

\* _add_document_content: its failure is logged, the document is kept.
AddDocumentContent ==
    /\ At_("content")
    /\ calls' = Append(calls, StepCall("content", 0))
    /\ \E o \in Outcomes : Goto("token2")
    /\ UNCHANGED <<document, attempts, webVars, storeVars, diaries>>

\* The second token; without it neither permission nor images are tried.
GetTokenAgain ==
    /\ At_("token2")
    /\ calls' = Append(calls, StepCall("token", 0))
    /\ \E o \in Outcomes :
          IF o = "ok" THEN Goto("permission")
          ELSE publish' = [publish EXCEPT !.pc = "done"]
    /\ UNCHANGED <<document, attempts, webVars, storeVars, diaries>>

\* _set_document_permission: its result is ignored; then the image loop,
\* if there are images.
SetDocumentPermission ==
    /\ At_("permission")
    /\ calls' = Append(calls, StepCall("permission", 0))
    /\ \E o \in Outcomes :
          IF Len(publish.images) > 0
          THEN publish' = LoopFrom([publish EXCEPT !.attach = TRUE], 1)
          ELSE publish' = [publish EXCEPT !.pc = "done"]
    /\ UNCHANGED <<document, attempts, webVars, storeVars, diaries>>

\* Step 1: the placeholder block.  A status other than 200 or an error
\* code skip the image; a body that cannot be read or no response at all
\* raise out of the loop, and the call returns what it has.
CreateImageBlock ==
    /\ At_("block")
    /\ calls' = Append(calls, StepCall("block", publish.i))
    /\ \E o \in Outcomes :
          /\ Attempted(o)
          /\ CASE o = "ok" ->
                    /\ Goto("download")
                    /\ document' = [document EXCEPT
                                      !.blocks = Append(@, Block(publish.i,
                                                                 FALSE))]
               [] o \in {"status", "code"} ->
                    /\ NextImage(publish.i + 1)
                    /\ UNCHANGED document
               [] OTHER ->
                    /\ publish' = [publish EXCEPT !.pc = "done"]
                    /\ UNCHANGED document
    /\ UNCHANGED <<webVars, storeVars, diaries>>

\* The variant in which a failed download ends the loop.
DownloadImageOrStop ==
    /\ At_("download")
    /\ calls' = Append(calls, StepCall("download", publish.i))
    /\ \E o \in DownloadOutcomes :
          /\ Attempted(o)
          /\ IF o = "ok" THEN Goto("upload")
             ELSE publish' = [publish EXCEPT !.pc = "done"]
    /\ UNCHANGED <<document, webVars, storeVars, diaries>>

\* Step 2: _download_image returns the bytes or None; None skips the image.
DownloadImage ==
    /\ At_("download")
    /\ calls' = Append(calls, StepCall("download", publish.i))
    /\ \E o \in DownloadOutcomes :
          /\ Attempted(o)
          /\ IF o = "ok" THEN Goto("upload") ELSE NextImage(publish.i + 1)
    /\ UNCHANGED <<document, webVars, storeVars, diaries>>

\* The variant that goes on to bind whatever the upload returned.
UploadImageUnchecked ==
    /\ At_("upload")
    /\ calls' = Append(calls, StepCall("upload", publish.i))
    /\ \E o \in Outcomes :
          /\ Attempted(o)
          /\ Goto("bind")
    /\ UNCHANGED <<document, webVars, storeVars, diaries>>

\* Step 3: _upload_image_to_document returns the file token or None.
UploadImage ==
    /\ At_("upload")
    /\ calls' = Append(calls, StepCall("upload", publish.i))
    /\ \E o \in Outcomes :
          /\ Attempted(o)
          /\ IF o = "ok" THEN Goto("bind") ELSE NextImage(publish.i + 1)
    /\ UNCHANGED <<document, webVars, storeVars, diaries>>

\* Step 4: _update_image_block binds the file to the block; whatever the
\* result, the loop goes on.
UpdateImageBlock ==
    /\ At_("bind")
    /\ calls' = Append(calls, StepCall("bind", publish.i))
    /\ \E o \in Outcomes :
          /\ Attempted(o)
          /\ NextImage(publish.i + 1)
          /\ document' =
                IF o = "ok"
                THEN [document EXCEPT
                        !.blocks = [b \in DOMAIN @ |->
                                       IF @[b].image = publish.i
                                       THEN Block(publish.i, TRUE)
                                       ELSE @[b]]]
                ELSE document
    /\ UNCHANGED <<webVars, storeVars, diaries>>

\* Nothing is being published.
IdleDoc ==
    /\ calls = <<>>
    /\ publish = Publish("idle", <<>>, 0, FALSE, NoValue)
    /\ document = [created |-> FALSE, blocks |-> <<>>]
    /\ attempts = <<>>

\* No request yet.
IdleWeb ==
    /\ now = 0
    /\ processed_messages = [k \in {} |-> 0]
    /\ background_tasks = <<>>
    /\ last = Request(Body("object", EmptyPayload, "absent", EmptyPayload),
                      Success, FALSE)
    /\ deliveries = <<>>
    /\ failedIds = {}
    /\ served = 0

InitWebhook ==
    /\ IdleStore /\ IdleDoc
    /\ now = 0
    /\ processed_messages = [k \in {} |-> 0]
    /\ background_tasks = <<>>
    /\ last = Request(Body("object", EmptyPayload, "absent", EmptyPayload),
                      Success, FALSE)
    /\ deliveries = <<>>
    /\ failedIds = {}
    /\ served = 0
    /\ diaries = SeedDiaries

\* Text turns and finish messages of one user on one day, one at a time.
InitTurns == IdleWeb /\ IdleStore /\ IdleDoc /\ diaries = {}

NextTurns ==
    \/ OneAtATime /\ events < MaxTurns /\ TextEvent
    \/ OneAtATime /\ events < MaxTurns /\ FinishEvent
    \/ TextResumes
    \/ ReplySent
    \/ DiaryResumes
    \/ DocumentReturns
    \/ DiaryReplySent

SpecTurns == InitTurns /\ [][NextTurns]_vars

\* The events of one user, one at a time, over two days, the server in UTC
\* or eight hours ahead of it.
TzOffsets == {0, 8}

InitDays ==
    /\ IdleWeb /\ IdleDoc /\ diaries = {}
    /\ clock = 0 /\ tz \in TzOffsets /\ conversation = <<>> /\ tasks = <<>>
    /\ events = 0 /\ msgSeq = 0 /\ appendLog = <<>> /\ turns = <<>>
    /\ runs = <<>>

NextDays ==
    \/ OneAtATime /\ events < MaxEvents /\ TextEvent
    \/ OneAtATime /\ events < MaxEvents /\ FinishEvent
    \/ OneAtATime /\ events < MaxEvents /\ MediaEvent
    \/ OneAtATime /\ events < MaxEvents /\ NewEvent
    \/ TextResumes
    \/ ReplySent
    \/ DiaryResumes
    \/ DocumentReturns
    \/ DiaryReplySent
    \/ MediaReplySent
    \/ Hours

SpecDays == InitDays /\ [][NextDays]_vars

\* ---------------------------------------------------------------------
\* The session store under any sequence of calls of its methods, each of
\* which runs without suspending, the database failing at will.
\* ---------------------------------------------------------------------

FaultCases ==
    {Faults(a, b, c, d) : a \in BOOLEAN, b \in BOOLEAN, c \in BOOLEAN,
                          d \in BOOLEAN}

\* A call of get_or_create_session: the table before and after it, the
\* errors it met, the session it returned.
SessionLookup(user_id, clk, f, before, got) ==
    [op |-> "get_or_create_session", user_id |-> user_id, clock |-> clk,
     f |-> f, before |-> before, after |-> got.conv, session |-> got.session]

\* A call of close_session: the table before and after it, what it returned.
SessionClose(user_id, clk, raises, before, after) ==
    [op |-> "close_session", user_id |-> user_id, clock |-> clk,
     raises |-> raises, before |-> before, after |-> after,
     ok |-> close_session_returns(raises)]

Lookup(user_id, f) ==
    /\ LET got == get_or_create_session(conversation, user_id, clock, tz, f)
       IN  /\ conversation' = got.conv
           /\ calls' = Append(calls, SessionLookup(user_id, clock, f,
                                                   conversation, got))
    /\ events' = events + 1
    /\ UNCHANGED <<clock, tz, tasks, msgSeq, appendLog, turns, runs, diaries>>
    /\ UNCHANGED <<webVars, docVars>>

AddMessage(user_id, role, f) ==
    /\ LET saved == add_message(conversation, user_id, role, msgSeq + 1,
                                clock, tz, f)
       IN  /\ conversation' = saved.conv
           /\ appendLog' = IF saved.ok
                           THEN Logged(appendLog, saved.id,
                                       Message(role, msgSeq + 1))
                           ELSE appendLog
    /\ msgSeq' = msgSeq + 1
    /\ events' = events + 1
    /\ UNCHANGED <<clock, tz, tasks, turns, runs, diaries>>
    /\ UNCHANGED <<webVars, docVars, calls>>

AddMedia(user_id, f) ==
    /\ conversation' = add_media_to_context(conversation, user_id,
                                            MediaInfo("image", events + 1),
                                            clock, tz, f).conv
    /\ events' = events + 1
    /\ UNCHANGED <<clock, tz, tasks, msgSeq, appendLog, turns, runs, diaries>>
    /\ UNCHANGED <<webVars, docVars, calls>>

ClearMedia(user_id, f) ==
    /\ conversation' = clear_media_files(conversation, user_id, clock, tz,
                                         f).conv
    /\ events' = events + 1
    /\ UNCHANGED <<clock, tz, tasks, msgSeq, appendLog, turns, runs, diaries>>
    /\ UNCHANGED <<webVars, docVars, calls>>

Close(user_id, raises) ==
    /\ conversation' = close_session(conversation, user_id, clock, raises)
    /\ calls' = Append(calls, SessionClose(user_id, clock, raises,
                                           conversation, conversation'))
    /\ events' = events + 1
    /\ UNCHANGED <<clock, tz, tasks, msgSeq, appendLog, turns, runs, diaries>>
    /\ UNCHANGED <<webVars, docVars>>

LookupCall == \E user_id \in Users, f \in FaultCases : Lookup(user_id, f)

AddMessageCall ==
    \E user_id \in Users, role \in {"user", "assistant"}, f \in FaultCases :
        AddMessage(user_id, role, f)

AddMediaCall == \E user_id \in Users, f \in FaultCases : AddMedia(user_id, f)

ClearMediaCall ==
    \E user_id \in Users, f \in FaultCases : ClearMedia(user_id, f)

CloseCall == \E user_id \in Users, raises \in BOOLEAN : Close(user_id, raises)

NextStore ==
    \/ events < MaxCalls /\ LookupCall
    \/ events < MaxCalls /\ AddMessageCall
    \/ events < MaxCalls /\ AddMediaCall
    \/ events < MaxCalls /\ ClearMediaCall
    \/ events < MaxCalls /\ CloseCall
    \/ Hours

SpecStore == InitDays /\ [][NextStore]_vars

\* Lookups and closes of the session of one user over a day, between
\* messages that touch the session.
MaxLookups == 3

\* The errors a lookup can meet: it has no UPDATE of its own, and
\* close_session is not reached when the SELECT fails.
LookupFaults == {f \in FaultCases : ~f.update /\ (f.fetch => ~f.close)}

TouchCall == \E user_id \in Users : AddMessage(user_id, "user", NoFault)

FaultyLookupCall ==
    \E user_id \in Users, f \in LookupFaults : Lookup(user_id, f)

NextSessions ==
    \/ events < MaxLookups /\ FaultyLookupCall
    \/ events < MaxLookups /\ TouchCall
    \/ events < MaxLookups /\ CloseCall
    \/ Hours

SpecSessions == InitDays /\ [][NextSessions]_vars

\* create_or_update_diary_document called with some list of images.
InitPublish ==
    /\ IdleWeb /\ IdleStore /\ diaries = {}
    /\ \E flags \in ImageLists :
          /\ publish = Publish("token", ImagesOf(flags), 0, FALSE, NoValue)
          /\ attempts = [j \in DOMAIN flags |-> <<>>]
    /\ document = [created |-> FALSE, blocks |-> <<>>]
    /\ calls = <<>>

NextPublish ==
    \/ GetToken
    \/ CreateDocument
    \/ AddDocumentContent
    \/ GetTokenAgain
    \/ SetDocumentPermission
    \/ CreateImageBlock
    \/ DownloadImage
    \/ UploadImage
    \/ UpdateImageBlock

SpecPublish == InitPublish /\ [][NextPublish]_vars

\* ---------------------------------------------------------------------
\* The diary table under direct calls of save_diary and delete_diary, the
\* database failing at will.
\* ---------------------------------------------------------------------

DiaryIds == {"d_1", "d_2", "d_3"}

\* A call of delete_diary: whether the row existed, whether the statement
\* raised, what was returned, whether a row with the id is left.
DeleteCall(diary_id, existed, raised, ok, left) ==
    [op |-> "delete_diary", diary_id |-> diary_id, existed |-> existed,
     raised |-> raised, ok |-> ok, left |-> left]

SaveCall(diary_id, raised) ==
    [op |-> "save_diary", diary_id |-> diary_id, raised |-> raised]

DeleteDiary(diary_id, raises) ==
    LET deleted == delete_diary(diaries, diary_id, raises)
    IN  /\ diaries' = deleted.rows
        /\ calls' = Append(calls,
                       DeleteCall(diary_id,
                                  \E r \in diaries : r.id = diary_id,
                                  raises, deleted.ok,
                                  \E r \in deleted.rows : r.id = diary_id))
        /\ UNCHANGED <<webVars, storeVars, docVars>>

SaveDiary(diary_id, raises) ==
    /\ diaries' = save_diary(diaries, diary_id, "ou_1", <<>>, NoValue, clock,
                             raises)
    /\ calls' = Append(calls, SaveCall(diary_id, raises))
    /\ UNCHANGED <<webVars, storeVars, docVars>>

DeleteDiaryCall ==
    \E diary_id \in DiaryIds, raises \in BOOLEAN :
        DeleteDiary(diary_id, raises)

SaveDiaryCall ==
    \E diary_id \in DiaryIds, raises \in BOOLEAN : SaveDiary(diary_id, raises)

InitDiary ==
    /\ IdleWeb /\ IdleStore /\ IdleDoc
    /\ diaries = SeedDiaries

NextDiary ==
    \/ Len(calls) < MaxDiaryCalls /\ DeleteDiaryCall
    \/ Len(calls) < MaxDiaryCalls /\ SaveDiaryCall

SpecDiary == InitDiary /\ [][NextDiary]_vars

\* ---------------------------------------------------------------------
\* llm_service.py, analyze_intent, and the routing of TextHandler.handle.
\* A text is a sequence of characters; a Chinese character is written by
\* its pinyin.
\* ---------------------------------------------------------------------

MaxTextLen == 4
MaxIntentCalls == 2

Chars == {"/", " ", "A", "zheng", "li", "hao", "le"}

RECURSIVE TextsUpTo(_)
TextsUpTo(n) ==
    IF n = 0 THEN {<<>>}
    ELSE LET shorter == TextsUpTo(n - 1)
         IN  shorter \cup {Append(t, c) : t \in shorter, c \in Chars}

Texts == TextsUpTo(MaxTextLen)

\* str.lower() of one character, of a text.
LowerChar(c) == IF c = "A" THEN "a" ELSE IF c = "N" THEN "n" ELSE c
Lower(text) == [n \in DOMAIN text |-> LowerChar(text[n])]

\* str.strip(): leading and trailing blanks removed.
RECURSIVE Strip(_)
Strip(text) ==
    IF text = <<>> THEN text
    ELSE IF Head(text) = " " THEN Strip(Tail(text))
    ELSE IF text[Len(text)] = " " THEN Strip(SubSeq(text, 1, Len(text) - 1))
    ELSE text

\* keyword in text
In(keyword, text) ==
    \E n \in 1..(Len(text) - Len(keyword) + 1) :
        SubSeq(text, n, n + Len(keyword) - 1) = keyword

\* text.startswith(prefix)
StartsWith(text, prefix) ==
    /\ Len(text) >= Len(prefix)
    /\ SubSeq(text, 1, Len(prefix)) = prefix

end_keywords ==
    << <<"jie", "shu">>, <<"wan", "cheng">>, <<"zheng", "li">>,
       <<"sheng", "cheng", "ri", "ji">>, <<"hao", "le">>,
       <<"jiu", "zhe", "yang">>, <<"zong", "jie">>,
       <<"bang", "wo", "zong", "jie">>, <<"zheng", "li", "ri", "ji">> >>

Intent(type, should_generate_diary) ==
    [type |-> type, should_generate_diary |-> should_generate_diary]

\* A variant of analyze_intent that tests for a command with 'elif'.
analyze_intent_elif(message) ==
    LET message_lower == Lower(message)
    IN  IF \E n \in DOMAIN end_keywords : In(end_keywords[n], message_lower)
        THEN Intent("end", TRUE)
        ELSE IF StartsWith(message, <<"/">>) THEN Intent("command", FALSE)
        ELSE Intent("chat", FALSE)

analyze_intent(message) ==
    LET message_lower == Lower(message)
        ends == \E n \in DOMAIN end_keywords :
                    In(end_keywords[n], message_lower)
    IN  Intent(IF StartsWith(message, <<"/">>) THEN "command"
               ELSE IF ends THEN "end" ELSE "chat",
               ends)

\* TextHandler.handle: where the stripped text goes.
Route(content) ==
    LET text == Strip(content)
    IN  IF StartsWith(text, <<"/">>) THEN "handle_command"
        ELSE IF analyze_intent(text).should_generate_diary
        THEN "generate_diary"
        ELSE "chat"

IntentCall(message, intent) ==
    [op |-> "analyze_intent", message |-> message, intent |-> intent]

RouteCall(content, route) ==
    [op |-> "handle", message |-> content, route |-> route]

\* The text of the message that came in.
TextInput(message) == [op |-> "input", message |-> message]

\* analyze_intent is called with the text.
AnalyzeIntent ==
    /\ calls' = Append(calls, IntentCall(calls[1].message,
                                         analyze_intent(calls[1].message)))
    /\ UNCHANGED <<webVars, storeVars, docVars, diaries>>

\* TextHandler.handle is called with the text.
HandleRoutes ==
    /\ calls' = Append(calls, RouteCall(calls[1].message,
                                        Route(calls[1].message)))
    /\ UNCHANGED <<webVars, storeVars, docVars, diaries>>

InitIntent ==
    /\ IdleWeb /\ IdleStore /\ diaries = {}
    /\ publish = Publish("idle", <<>>, 0, FALSE, NoValue)
    /\ document = [created |-> FALSE, blocks |-> <<>>]
    /\ attempts = <<>>
    /\ \E message \in Texts : calls = <<TextInput(message)>>

NextIntent ==
    \/ Len(calls) <= MaxIntentCalls /\ AnalyzeIntent
    \/ Len(calls) <= MaxIntentCalls /\ HandleRoutes

SpecIntent == InitIntent /\ [][NextIntent]_vars

\* ---------------------------------------------------------------------
\* llm_service.py: chat and its callers, inside a text turn and a
\* composition run.  A tone digit tells apart two characters of the same
\* pinyin.
\* ---------------------------------------------------------------------

MaxLlmEvents == 2

\* What the endpoint does to one call of chat: no API key is configured, the
\* POST raises, the status is not 200, the 200 body is not the expected
\* JSON, the content is null, the content is a text.
Endpoints == {"no_key", "exception", "status", "malformed", "null", "ok"}

\* What chat hands back: an exception or a value.
Returned(text) == [raised |-> FALSE, text |-> text]
Raised == [raised |-> TRUE, text |-> NoValue]

\* The latest user message of a text turn.
UserTexts ==
    {<<>>, <<"hao">>, <<"tian", "qi4">>, <<"ri", "qi1">>,
     <<"jin", "tian", "ji3", "hao">>, <<"jin", "tian", "tian", "qi4">>,
     <<"zao", "shang">>, <<"wan3", "shang">>, <<"xin", "qing">>}

\* The user message generate_diary appends to the context, reduced to the
\* characters the rules look at.
DiaryPrompt == <<"bang", "wo", "zheng", "li", "ri", "ji">>

\* _mock_response: the rules on the latest user message, in order.
_mock_response(last_message, today) ==
    IF In(<<"tian", "qi4">>, last_message) THEN "mock_weather"
    ELSE IF \/ In(<<"shi", "jian">>, last_message)
            \/ In(<<"ri", "qi1">>, last_message)
            \/ In(<<"jin", "tian", "ji3", "hao">>, last_message)
    THEN "mock_date_" \o ToString(today)
    ELSE IF In(<<"jin", "tian">>, last_message) \/ In(<<"ri", "ji">>, last_message)
    THEN "mock_today"
    ELSE IF In(<<"zao", "shang">>, last_message) \/ In(<<"shang", "wu">>, last_message)
    THEN "mock_morning"
    ELSE IF In(<<"xia", "wu">>, last_message) \/ In(<<"wan3", "shang">>, last_message)
    THEN "mock_afternoon"
    ELSE IF In(<<"xin", "qing">>, last_message) \/ In(<<"gan", "jue">>, last_message)
    THEN "mock_mood"
    ELSE IF \/ In(<<"jie", "shu">>, last_message)
            \/ In(<<"wan", "cheng">>, last_message)
            \/ In(<<"zheng", "li">>, last_message)
    THEN "mock_end"
    ELSE "mock_default"

\* A variant of chat that lets a transport exception out.
chat_raising(last_message, endpoint, today) ==
    IF endpoint = "exception" THEN Raised
    ELSE IF endpoint \in {"no_key", "status", "malformed"}
    THEN Returned(_mock_response(last_message, today))
    ELSE IF endpoint = "null" THEN Returned(NoValue)
    ELSE Returned("llm_text")

\* chat: the rules answer when there is no key, when the status is not 200
\* and when anything raises; else the content of the first choice, which
\* may be null.
chat(last_message, endpoint, today) ==
    IF endpoint = "no_key" THEN Returned(_mock_response(last_message, today))
    ELSE IF endpoint \in {"exception", "malformed"}
    THEN Returned(_mock_response(last_message, today))
    ELSE IF endpoint = "status"
    THEN Returned(_mock_response(last_message, today))
    ELSE IF endpoint = "null" THEN Returned(NoValue)
    ELSE Returned("llm_text")

\* generate_guide_question: chat_with_internet, which ends in chat with or
\* without a search note added.
generate_guide_question(last_message, endpoint, today) ==
    chat(last_message, endpoint, today)

\* LLMService.generate_diary: chat on the context and the fixed prompt.
generate_diary(endpoint, today) == chat(DiaryPrompt, endpoint, today)

LlmCall(t, fn, last_message, endpoint, seq, result) ==
    [op |-> "llm", tid |-> t.tid, sid |-> t.sid, fn |-> fn,
     last_message |-> last_message, endpoint |-> endpoint, seq |-> seq,
     raised |-> result.raised, text |-> result.text]

\* The run waits for the language model.
LlmPending(i) ==
    /\ tasks[i].pc = "llm"
    /\ \A n \in DOMAIN calls :
          calls[n].op = "llm" => calls[n].tid # tasks[i].tid

LlmResult(i) ==
    CHOOSE c \in {calls[n] : n \in DOMAIN calls} :
        c.op = "llm" /\ c.tid = tasks[i].tid

\* The call of the language model of run i ends.
LlmAnswers(i) ==
    /\ LlmPending(i)
    /\ \E endpoint \in Endpoints :
          IF tasks[i].kind = "compose"
          THEN calls' = Append(calls,
                   LlmCall(tasks[i], "generate_diary", DiaryPrompt, endpoint,
                           msgSeq, generate_diary(endpoint, Today(clock))))
          ELSE \E text \in UserTexts :
                 calls' = Append(calls,
                     LlmCall(tasks[i], "generate_guide_question", text,
                             endpoint, msgSeq,
                             generate_guide_question(text, endpoint,
                                                     Today(clock))))
    /\ UNCHANGED <<storeVars, webVars, docVars, diaries>>

\* The run ends in the except of its handler: an exception came out of the
\* language model call, or the diary text is None and len() raises.
LlmAborts(i) ==
    /\ tasks[i].pc = "llm" /\ ~LlmPending(i)
    /\ \/ LlmResult(i).raised
       \/ tasks[i].kind = "compose" /\ LlmResult(i).text = NoValue
    /\ tasks' = Without(tasks, i)
    /\ UNCHANGED <<clock, tz, conversation, events, msgSeq, appendLog, turns,
                   runs, diaries, calls>>
    /\ UNCHANGED <<webVars, docVars>>

LlmReturns == \E i \in DOMAIN tasks : LlmAnswers(i)

GuideReturns ==
    \E i \in DOMAIN tasks :
        /\ tasks[i].pc = "llm" /\ ~LlmPending(i)
        /\ ~LlmResult(i).raised
        /\ TextReplied(i)

DiaryReturns ==
    \E i \in DOMAIN tasks :
        /\ tasks[i].pc = "llm" /\ ~LlmPending(i)
        /\ ~LlmResult(i).raised /\ LlmResult(i).text # NoValue
        /\ DiaryDrafted(i)

RunAborts == \E i \in DOMAIN tasks : LlmAborts(i)

InitLlm == InitTurns

NextLlm ==
    \/ OneAtATime /\ events < MaxLlmEvents /\ TextEvent
    \/ OneAtATime /\ events < MaxLlmEvents /\ FinishEvent
    \/ LlmReturns
    \/ GuideReturns
    \/ ReplySent
    \/ DiaryReturns
    \/ RunAborts
    \/ DocumentReturns
    \/ DiaryReplySent

SpecLlm == InitLlm /\ [][NextLlm]_vars

\* ---------------------------------------------------------------------
\* text_handler.py: the text of a message on its way through handle and
\* handle_command.
\* ---------------------------------------------------------------------

MaxCommandLen == 4

CommandChars == {"/", " ", "n", "e", "w", "N", "zheng", "li"}

RECURSIVE CommandTextsUpTo(_)
CommandTextsUpTo(n) ==
    IF n = 0 THEN {<<>>}
    ELSE LET shorter == CommandTextsUpTo(n - 1)
         IN  shorter \cup {Append(t, c) : t \in shorter, c \in CommandChars}

CommandTexts == CommandTextsUpTo(MaxCommandLen)

\* The commands handle_command knows, and the handler of each.
Commands ==
    {<<"h", "e", "l", "p">>, <<"q", "u", "e", "r", "y">>,
     <<"c", "o", "n", "f", "i", "g">>, <<"d", "i", "a", "r", "y">>,
     <<"n", "e", "w">>, <<"d", "e", "l", "e", "t", "e">>,
     <<"l", "i", "s", "t">>, <<"c", "l", "e", "a", "n", "t", "e", "s", "t">>}

HandlerOf(command) ==
    IF command = <<"d", "i", "a", "r", "y">> THEN "generate_diary"
    ELSE IF command = <<"n", "e", "w">> THEN "start_new_session"
    ELSE IF command = <<"h", "e", "l", "p">> THEN "cmd_help"
    ELSE IF command = <<"q", "u", "e", "r", "y">> THEN "cmd_query"
    ELSE IF command = <<"c", "o", "n", "f", "i", "g">> THEN "cmd_config"
    ELSE IF command = <<"d", "e", "l", "e", "t", "e">> THEN "cmd_delete"
    ELSE IF command = <<"l", "i", "s", "t">> THEN "cmd_list"
    ELSE "cmd_cleantest"

\* str.split()[0]: the blanks in front are skipped, the word ends at the
\* next blank; <<>> when there is no word (the index raises).
RECURSIVE SkipBlanks(_)
SkipBlanks(s) ==
    IF s # <<>> /\ Head(s) = " " THEN SkipBlanks(Tail(s)) ELSE s

RECURSIVE Word(_)
Word(s) ==
    IF s = <<>> \/ Head(s) = " " THEN <<>> ELSE <<Head(s)>> \o Word(Tail(s))

FirstWord(s) == Word(SkipBlanks(s))

\* What handle returns, or the handler it goes on with.
Result(code, msg, token) ==
    [handler |-> "none", code |-> code, msg |-> msg, token |-> token]

Dispatch(handler) ==
    [handler |-> handler, code |-> 0, msg |-> "", token |-> <<>>]

\* handle_command; the IndexError of a text with no word after "/" is
\* caught by handle.
handle_command(text) ==
    LET word == FirstWord(Tail(text))
        command == Lower(word)
    IN  IF word = <<>> THEN Result(1, "failed", <<>>)
        ELSE IF command \in Commands THEN Dispatch(HandlerOf(command))
        ELSE Result(1, "unknown_command", command)

\* A variant of handle that asks for the intent before it looks for "/".
handle_intent_first(content) ==
    LET text == Strip(content)
    IN  IF analyze_intent(text).should_generate_diary
        THEN Dispatch("generate_diary")
        ELSE IF StartsWith(text, <<"/">>) THEN handle_command(text)
        ELSE Dispatch("chat")

\* TextHandler.handle up to the handler it goes on with.
handle(content) ==
    LET text == Strip(content)
    IN  IF StartsWith(text, <<"/">>) THEN handle_command(text)
        ELSE IF analyze_intent(text).should_generate_diary
        THEN Dispatch("generate_diary")
        ELSE Dispatch("chat")

\* The text was handled: what came of it, and the tables at that time.
HandleCall(content, result) ==
    [op |-> "handle_text", message |-> content, result |-> result,
     conversation |-> conversation, diaries |-> diaries, events |-> events]

\* The text message comes in and handle runs up to its handler.
Typed == \A n \in DOMAIN calls : calls[n].op # "handle_text"

HandleTyped ==
    /\ Typed
    /\ calls' = Append(calls, HandleCall(calls[1].message,
                                         handle(calls[1].message)))
    /\ UNCHANGED <<storeVars, webVars, docVars, diaries>>

\* The text was handled and its handler has not started.
GoesOnWith(handler) ==
    \E n \in DOMAIN calls :
        /\ calls[n].op = "handle_text"
        /\ calls[n].result.handler = handler
        /\ calls[n].events = events

InitCommand ==
    /\ IdleWeb /\ IdleStore /\ diaries = {}
    /\ publish = Publish("idle", <<>>, 0, FALSE, NoValue)
    /\ document = [created |-> FALSE, blocks |-> <<>>]
    /\ attempts = <<>>
    /\ \E content \in CommandTexts : calls = <<TextInput(content)>>

NextCommand ==
    \/ Typed /\ conversation = <<>> /\ MediaEvent
    \/ MediaReplySent
    \/ OneAtATime /\ HandleTyped
    \/ GoesOnWith("start_new_session") /\ NewEvent
    \/ GoesOnWith("generate_diary") /\ FinishEvent
    \/ GoesOnWith("chat") /\ TextEvent
    \/ TextResumes
    \/ ReplySent
    \/ DiaryResumes
    \/ DocumentReturns
    \/ DiaryReplySent

SpecCommand == InitCommand /\ [][NextCommand]_vars

\* ---------------------------------------------------------------------
\* Background tasks of one user in flight together: an event is taken
\* while the runs of earlier events wait at an await, the runs resume in
\* any order.
\* ---------------------------------------------------------------------

MaxInFlightEvents == 3

NextConcurrent ==
    \/ events < MaxInFlightEvents /\ TextEvent
    \/ events < MaxInFlightEvents /\ MediaEvent
    \/ events < MaxInFlightEvents /\ FinishEvent
    \/ events < MaxInFlightEvents /\ NewEvent
    \/ TextResumes
    \/ ReplySent
    \/ MediaReplySent
    \/ DiaryResumes
    \/ DocumentReturns
    \/ DiaryReplySent

SpecConcurrent == InitTurns /\ [][NextConcurrent]_vars

\* ---------------------------------------------------------------------
\* feishu_doc_service.py, _convert_content_to_blocks: the body of a diary
\* as a sequence of characters, cut into lines, one block per line that is
\* not blank.
\* ---------------------------------------------------------------------

MaxBodyLen == 5

BodyChars == {"#", " ", "x", "\n"}

RECURSIVE ContentsUpTo(_)
ContentsUpTo(n) ==
    IF n = 0 THEN {<<>>}
    ELSE LET shorter == ContentsUpTo(n - 1)
         IN  shorter \cup {Append(t, c) : t \in shorter, c \in BodyChars}

Contents == ContentsUpTo(MaxBodyLen)

\* content.split('\n')
RECURSIVE Split(_)
Split(content) ==
    IF \A n \in DOMAIN content : content[n] # "\n" THEN <<content>>
    ELSE LET at == CHOOSE n \in DOMAIN content :
                       /\ content[n] = "\n"
                       /\ \A k \in 1..(n - 1) : content[k] # "\n"
         IN  <<SubSeq(content, 1, at - 1)>>
                 \o Split(SubSeq(content, at + 1, Len(content)))

\* A block of a document: block_type 3, 4, 5 for heading1, heading2,
\* heading3 and 2 for text, and the content of its one text_run.
TextBlock(block_type, content) == [block_type |-> block_type, content |-> content]

From(line, n) == SubSeq(line, n, Len(line))

\* The block of a line that is not blank, the line stripped.
BlockOf(line) ==
    IF StartsWith(line, <<"#", " ">>) THEN TextBlock(3, From(line, 3))
    ELSE IF StartsWith(line, <<"#", "#", " ">>) THEN TextBlock(4, From(line, 4))
    ELSE IF StartsWith(line, <<"#", "#", "#", " ">>)
    THEN TextBlock(5, From(line, 5))
    ELSE TextBlock(2, line)

\* A variant that takes the marker without the blank after it.
BlockOfBare(line) ==
    IF StartsWith(line, <<"#", "#", "#">>) THEN TextBlock(5, Strip(From(line, 4)))
    ELSE IF StartsWith(line, <<"#", "#">>) THEN TextBlock(4, Strip(From(line, 3)))
    ELSE IF StartsWith(line, <<"#">>) THEN TextBlock(3, Strip(From(line, 2)))
    ELSE TextBlock(2, line)

RECURSIVE BlocksOfBare(_)
BlocksOfBare(lines) ==
    IF lines = <<>> THEN <<>>
    ELSE LET line == Strip(Head(lines))
         IN  (IF line = <<>> THEN <<>> ELSE <<BlockOfBare(line)>>)
                 \o BlocksOfBare(Tail(lines))

_convert_content_to_blocks_bare(content) == BlocksOfBare(Split(content))

\* The loop over the lines.
RECURSIVE BlocksOf(_)
BlocksOf(lines) ==
    IF lines = <<>> THEN <<>>
    ELSE LET line == Strip(Head(lines))
         IN  (IF line = <<>> THEN <<>> ELSE <<BlockOf(line)>>)
                 \o BlocksOf(Tail(lines))

_convert_content_to_blocks(content) == BlocksOf(Split(content))

\* A body was converted.
ConvertCall(content, blocks) ==
    [op |-> "convert", content |-> content, blocks |-> blocks]

ConvertContent ==
    /\ Len(calls) = 1
    /\ calls' = Append(calls,
                       ConvertCall(calls[1].message,
                                   _convert_content_to_blocks(calls[1].message)))
    /\ UNCHANGED <<storeVars, webVars, docVars, diaries>>

InitBlocks ==
    /\ IdleWeb /\ IdleStore /\ diaries = {}
    /\ publish = Publish("idle", <<>>, 0, FALSE, NoValue)
    /\ document = [created |-> FALSE, blocks |-> <<>>]
    /\ attempts = <<>>
    /\ \E content \in Contents : calls = <<TextInput(content)>>

NextBlocks == ConvertContent

SpecBlocks == InitBlocks /\ [][NextBlocks]_vars

\* ---------------------------------------------------------------------
\* text_handler.py, cmd_delete: /delete <document id>.  The remote delete
\* is awaited, then the rows bound to the document are deleted one by one.
\* ---------------------------------------------------------------------

MaxDeleteEvents == 2

DocumentIds == {"doc_1", "doc_2", "doc_9"}

\* A variant that leaves the rows alone when the remote delete failed.
cmd_delete_if_removed(rows, document_id, doc_success, lookupRaises, failing) ==
    LET found == get_diaries_by_document_id(rows, document_id, lookupRaises)
        gone  == IF doc_success THEN found \ failing ELSE {}
    IN  [rows |-> rows \ gone, db_deleted_count |-> Cardinality(gone),
         code |-> IF doc_success THEN 0 ELSE 1]

\* cmd_delete after the remote delete returned doc_success: failing are
\* the rows whose delete_diary raises.
cmd_delete(rows, document_id, doc_success, lookupRaises, failing) ==
    LET found == get_diaries_by_document_id(rows, document_id, lookupRaises)
        gone  == {r \in found : r \notin failing /\ r.id # NoValue}
    IN  [rows |-> rows \ gone, db_deleted_count |-> Cardinality(gone),
         code |-> IF doc_success THEN 0 ELSE 1]

\* The remote delete of a run returned, or its rows were deleted and the
\* run returned.
CmdDeleteCall(op, document_id, doc_success, raised, failed, code) ==
    [op |-> op, document_id |-> document_id, doc_success |-> doc_success,
     raised |-> raised, failed |-> failed, code |-> code]

\* /delete with a document id: the remote delete is awaited.
CmdDelete(user_id, document_id) ==
    /\ tasks' = Append(tasks,
                    Handler(events + 1, "delete", user_id, "remote", NoId,
                            <<>>, 0, <<>>, document_id))
    /\ events' = events + 1
    /\ UNCHANGED <<clock, tz, conversation, msgSeq, appendLog, turns, runs>>
    /\ UNCHANGED <<webVars, docVars, diaries, calls>>

\* feishu_doc_service.delete_document returned True or False.
DeleteDocument(i) ==
    /\ tasks[i].kind = "delete" /\ tasks[i].pc = "remote"
    /\ \E doc_success \in BOOLEAN :
          /\ tasks' = At(tasks, i,
                         [tasks[i] EXCEPT
                             !.pc = IF doc_success THEN "removed" ELSE "kept"])
          /\ calls' = Append(calls,
                             CmdDeleteCall("delete_document",
                                           tasks[i].document_id, doc_success,
                                           FALSE, {}, 0))
    /\ UNCHANGED <<clock, tz, conversation, events, msgSeq, appendLog, turns,
                   runs>>
    /\ UNCHANGED <<webVars, docVars, diaries>>

\* The rows are looked up and deleted, the reply is sent, the run returns.
CmdDeleteRows(i) ==
    /\ tasks[i].kind = "delete" /\ tasks[i].pc \in {"removed", "kept"}
    /\ \E lookupRaises \in BOOLEAN,
          failing \in SUBSET get_diaries_by_document_id(
                                 diaries, tasks[i].document_id, FALSE) :
          LET done == cmd_delete(diaries, tasks[i].document_id,
                                 tasks[i].pc = "removed", lookupRaises,
                                 failing)
          IN  /\ (lookupRaises => failing = {})
              /\ diaries' = done.rows
              /\ calls' = Append(calls,
                                 CmdDeleteCall("cmd_delete",
                                               tasks[i].document_id,
                                               tasks[i].pc = "removed",
                                               lookupRaises,
                                               {r.id : r \in failing},
                                               done.code))
    /\ tasks' = Without(tasks, i)
    /\ UNCHANGED <<clock, tz, conversation, events, msgSeq, appendLog, turns,
                   runs>>
    /\ UNCHANGED <<webVars, docVars>>

DeleteCommand ==
    \E user_id \in Users, document_id \in DocumentIds :
        CmdDelete(user_id, document_id)

DeleteDocumentReturns == \E i \in DOMAIN tasks : DeleteDocument(i)

DeleteRowsDone == \E i \in DOMAIN tasks : CmdDeleteRows(i)

InitDelete == InitDiary

NextDelete ==
    \/ events < MaxDeleteEvents /\ DeleteCommand
    \/ DeleteDocumentReturns
    \/ DeleteRowsDone

SpecDelete == InitDelete /\ [][NextDelete]_vars

\* ---------------------------------------------------------------------
\* llm_service.py, chat_with_internet: the messages handed to chat.  The
\* content of a message is a sequence of characters: some characters that
\* matter, then characters that belong to no keyword.
\* ---------------------------------------------------------------------

MaxTurnLen == 102

SearchBelow == 100

search_keywords ==
    << <<"tian", "qi4">>, <<"xin", "wen">>, <<"jin", "tian">>,
       <<"xian", "zai">>, <<"zui", "xin">>, <<"gu", "jia">>,
       <<"hui", "lv">>, <<"shi", "jian">>, <<"ji3", "hao">>,
       <<"ri", "qi1">> >>

Openings ==
    {<<>>, <<"tian", "qi4">>, <<"jin", "tian">>, <<"ri", "qi1">>,
     <<"tian">>, <<"qi4", "tian">>, <<"zui", "xin", "wen">>}

Padded(opening, n) == opening \o [k \in 1..n |-> "x"]

\* The turns a user sends: short ones, and ones around the length limit.
Turns ==
    {Padded(opening, n) :
        opening \in Openings,
        n \in {0, 1} \cup ((SearchBelow - 5)..MaxTurnLen)}
    \cap {t \in {Padded(opening, n) :
                    opening \in Openings, n \in 0..MaxTurnLen} :
             Len(t) <= MaxTurnLen}

ChatMessage(role, content) == [role |-> role, content |-> content]

\* The messages generate_guide_question hands over: the prompt, an
\* earlier turn or none, the latest turn, a message after it or none.
Prompts ==
    {<<ChatMessage("system", <<>>)>> \o earlier \o latest \o later :
        earlier \in {<<>>, <<ChatMessage("user", <<"jin", "tian">>),
                             ChatMessage("assistant", <<"x">>)>>},
        latest \in {<<>>} \cup {<<ChatMessage("user", t)>> : t \in Turns},
        later \in {<<>>, <<ChatMessage("assistant", <<"tian", "qi4">>)>>}}

\* for msg in reversed(messages): the content of the last user message,
\* "" when there is none.
RECURSIVE LastUserMessage(_)
LastUserMessage(messages) ==
    IF messages = <<>> THEN <<>>
    ELSE IF messages[Len(messages)].role = "user"
    THEN messages[Len(messages)].content
    ELSE LastUserMessage(SubSeq(messages, 1, Len(messages) - 1))

need_search(last_message) ==
    \E n \in DOMAIN search_keywords : In(search_keywords[n], last_message)

SearchNote == ChatMessage("system", <<"search_result">>)

\* A variant that searches for a turn of 100 characters too.
chat_with_internet_inclusive(messages) ==
    LET last_message == LastUserMessage(messages)
    IN  IF need_search(last_message) /\ Len(last_message) <= SearchBelow
        THEN Append(messages, SearchNote)
        ELSE messages

\* chat_with_internet: the messages chat is called with.
chat_with_internet(messages) ==
    LET last_message == LastUserMessage(messages)
    IN  IF need_search(last_message) /\ Len(last_message) < SearchBelow
        THEN Append(messages, SearchNote)
        ELSE messages

SearchCall(messages, prompt) ==
    [op |-> "chat_with_internet", messages |-> messages, prompt |-> prompt]

ChatWithInternet ==
    /\ Len(calls) = 1
    /\ calls' = Append(calls,
                       SearchCall(calls[1].message,
                                  chat_with_internet(calls[1].message)))
    /\ UNCHANGED <<storeVars, webVars, docVars, diaries>>

InitSearch ==
    /\ IdleWeb /\ IdleStore /\ diaries = {}
    /\ publish = Publish("idle", <<>>, 0, FALSE, NoValue)
    /\ document = [created |-> FALSE, blocks |-> <<>>]
    /\ attempts = <<>>
    /\ \E messages \in Prompts : calls = <<TextInput(messages)>>

NextSearch == ChatWithInternet

SpecSearch == InitSearch /\ [][NextSearch]_vars

\* ---------------------------------------------------------------------
\* llm_service.py: generate_diary on any transcript, the message list it
\* builds and the scan of _mock_response for the latest user message.
\* ---------------------------------------------------------------------

MaxContextLen == 2

\* The texts of the messages of a transcript: each would draw another
\* answer from the rules than the compose request does.
ContextTexts == {<<"tian", "qi4">>, <<"ri", "qi1">>}

\* The user and assistant messages of a session, in any order.
Exchanges(n) ==
    [1..n -> {Message(role, text) : role \in {"user", "assistant"},
                                    text \in ContextTexts}]

\* What get_context hands over: the system message of the session and then
\* its user and assistant messages.
Contexts ==
    {<<Message("system", <<"ri", "ji", "zhu", "shou">>)>> \o s :
        s \in UNION {Exchanges(n) : n \in 0..MaxContextLen}}

\* The system prompt of generate_diary, reduced to its first words.
DiarySystemPrompt == <<"ri", "ji", "zheng", "li", "zhu", "shou">>

\* The variant that sends the transcript without the compose request.
DiaryMessagesBare(context) ==
    <<Message("system", DiarySystemPrompt)>> \o context

\* messages of generate_diary: the system prompt, the context, and the
\* compose request as a user message.
DiaryMessages(context) ==
    <<Message("system", DiarySystemPrompt)>> \o context
        \o <<Message("user", DiaryPrompt)>>

\* The loop of _mock_response over reversed(messages): the content of the
\* last message of role user, "" when there is none.
LastMessage(messages) ==
    LET users == {n \in DOMAIN messages : messages[n].role = "user"}
    IN  IF users = {} THEN <<>>
        ELSE messages[CHOOSE n \in users : \A k \in users : k <= n].content

\* chat on a list of messages.
ChatOn(messages, endpoint, today) ==
    chat(LastMessage(messages), endpoint, today)

\* generate_diary on a context.
GenerateDiaryOn(context, endpoint, today) ==
    ChatOn(DiaryMessages(context), endpoint, today)

\* A call of generate_diary: the context, what the endpoint did, the text
\* that came back.
DiaryCall(context, endpoint, result) ==
    [op |-> "generate_diary", context |-> context, endpoint |-> endpoint,
     raised |-> result.raised, text |-> result.text]

ComposeOn(context, endpoint) ==
    /\ calls' = Append(calls,
           DiaryCall(context, endpoint,
                     GenerateDiaryOn(context, endpoint, Today(clock))))
    /\ UNCHANGED <<webVars, storeVars, docVars, diaries>>

\* generate_diary is called on one transcript.
ComposeOne ==
    /\ calls = <<>>
    /\ \E context \in Contexts, endpoint \in Endpoints :
          ComposeOn(context, endpoint)

\* generate_diary is called on another transcript.
ComposeOther ==
    /\ Len(calls) = 1
    /\ \E context \in Contexts, endpoint \in Endpoints :
          ComposeOn(context, endpoint)

InitFallback ==
    /\ IdleWeb /\ IdleStore /\ IdleDoc /\ diaries = {} /\ calls = <<>>

NextFallback ==
    \/ ComposeOne
    \/ ComposeOther

SpecFallback == InitFallback /\ [][NextFallback]_vars

\* The event router under any request.
NextWebhook == HandleEvent \/ RunTask

SpecWebhook == InitWebhook /\ [][NextWebhook]_vars

\* The dedup cache under deliveries and redeliveries of message events as
\* time passes.
NextDedup == DeliverMessage \/ RunTask \/ Tick

SpecDedup == InitWebhook /\ [][NextDedup]_vars

\* ------------------------------------------------------------------------
\* Properties of the webhook and the dedup cache
\* ------------------------------------------------------------------------
SameId(i, j) == deliveries[i].id = deliveries[j].id

\* C1: a message id is handed to process_message_async at most once while
\* its dedup entry is inside the freshness window: a delivery of an id at
\* most 300 s after a delivery of that id that was dispatched is answered
\* with success and schedules nothing, whether or not the handler run of the
\* first delivery failed.
C1_AtMostOnceInWindow ==
    \A i, j \in 1..Len(deliveries) :
        (i < j /\ SameId(i, j) /\ deliveries[i].scheduled
               /\ deliveries[j].at - deliveries[i].at <= FreshnessWindow)
        => (~deliveries[j].scheduled /\ deliveries[j].resp = Success)

\* A redelivery inside the window, after the handler of the first delivery
\* failed, was acknowledged and not dispatched.
C1_Witness ==
    \E i, j \in 1..Len(deliveries) :
        /\ i < j /\ SameId(i, j) /\ deliveries[i].scheduled
        /\ deliveries[j].at - deliveries[i].at <= FreshnessWindow
        /\ deliveries[j].afterFailure
        /\ ~deliveries[j].scheduled

\* C2: the dedup check of an id answers True exactly when the id was recorded
\* (a check that answered False) at most 300 s earlier; a duplicate hit does
\* not refresh the entry, so once more than 300 s have passed since the id
\* was recorded the next check answers False and the one after it True.
C2_DedupWindow ==
    \A j \in 1..Len(deliveries) :
        deliveries[j].dup <=>
            \E i \in 1..(j - 1) :
                /\ SameId(i, j) /\ ~deliveries[i].dup
                /\ deliveries[j].at - deliveries[i].at <= FreshnessWindow

\* Four checks of one id answered False, True, (window over) False, True.
C2_Witness ==
    \E i, j, k, l \in 1..Len(deliveries) :
        /\ i < j /\ j < k /\ k < l
        /\ SameId(i, j) /\ SameId(j, k) /\ SameId(k, l)
        /\ ~deliveries[i].dup /\ deliveries[j].dup
        /\ ~deliveries[k].dup /\ deliveries[l].dup
        /\ deliveries[j].at > deliveries[i].at
        /\ deliveries[j].at - deliveries[i].at <= FreshnessWindow
        /\ deliveries[k].at - deliveries[i].at > FreshnessWindow
        /\ deliveries[k].at - deliveries[j].at <= FreshnessWindow

\* The payload carries a challenge: in the plain body, or in the envelope
\* once decrypted.
CarriesChallenge(body) ==
    \/ body.outer.challenge # NoValue
    \/ body.encrypt = "ok" /\ body.inner.challenge # NoValue

\* C4: a body that parses as JSON and carries no challenge is answered with
\* {"code": 0, "msg": "success"} whatever happens afterwards; only a body
\* that fails to parse as JSON is answered with a client error; and the step
\* that produces the answer schedules the handler without running it.
C4_AlwaysSuccess ==
    /\ []((last.body.json \in {"scalar", "object"} /\ ~CarriesChallenge(last.body))
              => (last.resp = Success))
    /\ []((last.resp = ClientError) => (last.body.json = "malformed"))
    /\ [][served' # served =>
             (/\ failedIds' = failedIds
              /\ (last'.scheduled =>
                     (/\ Len(background_tasks') = Len(background_tasks) + 1
                      /\ background_tasks'[Len(background_tasks')].message_id
                            = EventData(last'.body).message_id)))]_vars

\* Requests answered with success: after a failed decryption, for a
\* duplicate id, after a failed row deletion, for an unknown event type.
C4_Witness ==
    \/ last.body.encrypt \in DecryptFailures /\ last.resp = Success
    \/ /\ last.body.outer.event_type = "drive.file.deleted_completely_v1"
       /\ last.body.outer.file_token = "doc_1"
       /\ \E r \in diaries : r.document_id = "doc_1"
       /\ last.resp = Success

\* The runs that hold a transcript for composition: waiting or finished.
Composing == {i \in DOMAIN tasks : tasks[i].kind \in {"compose", "empty"}}

\* One system message, then k user and k assistant messages alternating,
\* which are the messages appended to the session in order.
TurnsTranscript(context, k, appended) ==
    /\ Len(context) = 1 + 2 * k
    /\ context[1] = SystemMessage
    /\ \A j \in 1..(2 * k) :
          /\ context[j + 1].role = (IF j % 2 = 1 THEN "user" ELSE "assistant")
          /\ context[j + 1] = appended[j]

C8_CompactionKeepsLast18 ==
    \A id \in DOMAIN conversation :
        LET appended == LogOf(appendLog, id, <<>>)
        IN  (/\ Len(appended) = 24
             /\ \A j \in 1..24 :
                   appended[j].role
                       = (IF j % 2 = 1 THEN "user" ELSE "assistant"))
            => (/\ Len(conversation[id].messages) = 19
                /\ conversation[id].messages
                       = <<SystemMessage>> \o SubSeq(appended, 7, 24))

C8_Witness ==
    \E id \in DOMAIN conversation :
        /\ Len(LogOf(appendLog, id, <<>>)) = 24
        /\ Len(conversation[id].messages) = 19
        /\ conversation[id].messages[2].content = 7

\* C3 as stated: a user has at most one active session per day, whatever
\* calls were made and whichever of them met a database error.
C3_OneActivePerDay ==
    \A user_id \in Users, day \in 0..Today(MaxClock) :
        Cardinality(ActiveIds(conversation, user_id, day)) <= 1

\* C11 as stated: a composition run whose publish call returned null still
\* saves its diary row, with a null document id, sends the diary text and
\* closes the session; and a diary row has a null document id only if the
\* publish call of its run returned null.
C11_ComposesWithoutDocument ==
    \A j \in DOMAIN runs :
        /\ runs[j].document_id = NoValue
              => (/\ Cardinality(runs[j].rows) = 1
                  /\ \A r \in runs[j].rows : r.document_id = NoValue
                  /\ runs[j].reply.diary
                  /\ runs[j].row.status = "closed")
        /\ \A r \in runs[j].rows :
              r.document_id = NoValue => runs[j].document_id = NoValue

\* C12 as stated: a request whose envelope fails to decrypt is dropped: no
\* handler is scheduled, the dedup cache, the sessions and the diary rows
\* stay as they are, and the answer is success.
C12_DecryptFailureDrops ==
    [][(served' # served /\ last'.body.encrypt \in DecryptFailures)
          => (/\ background_tasks' = background_tasks
              /\ processed_messages' = processed_messages
              /\ conversation' = conversation
              /\ diaries' = diaries
              /\ last'.resp = Success)]_vars

\* Calls i and i + 1 delete the same diary id.
TwiceInARow(i) ==
    /\ i + 1 \in DOMAIN calls
    /\ calls[i].op = "delete_diary" /\ calls[i + 1].op = "delete_diary"
    /\ calls[i].diary_id = calls[i + 1].diary_id

\* C13 as stated: delete_diary of an existing row returns True and leaves
\* no row with the id, and the same call made again returns False.
C13_DeleteTwice ==
    \A i \in DOMAIN calls :
        /\ (calls[i].op = "delete_diary" /\ calls[i].existed)
              => (calls[i].ok /\ ~calls[i].left)
        /\ (TwiceInARow(i) /\ calls[i].existed) => ~calls[i + 1].ok

\* C13 amended: the same when the DELETE statement of the first call does
\* not fail; when it fails the call returns False and the row is left.
C13_DeleteTwiceUnlessError ==
    \A i \in DOMAIN calls :
        calls[i].op = "delete_diary"
        => (/\ (calls[i].existed /\ ~calls[i].raised)
                  => (calls[i].ok /\ ~calls[i].left)
            /\ (TwiceInARow(i) /\ calls[i].existed /\ ~calls[i].raised)
                  => ~calls[i + 1].ok
            /\ calls[i].raised
                  => (~calls[i].ok /\ calls[i].left = calls[i].existed)
            /\ ~calls[i].existed => (~calls[i].ok /\ ~calls[i].left))

\* An existing row deleted twice in a row: True, then False.
C13_Witness ==
    \E i \in DOMAIN calls :
        /\ TwiceInARow(i)
        /\ calls[i].existed /\ calls[i].ok /\ ~calls[i].left
        /\ ~calls[i + 1].raised /\ ~calls[i + 1].ok

\* The rows bound to a document.
BoundTo(rows, document_id) == {r \in rows : r.document_id = document_id}

\* A deleted-document event with a token has just been handled.
DeletedHandled ==
    /\ Len(calls') = Len(calls) + 1
    /\ calls'[Len(calls')].op = "deleted_event"
    /\ calls'[Len(calls')].file_token # ""

\* C14 as stated: after a deleted-document event for token T no diary row
\* is bound to T, every other row is unchanged, no session is touched and
\* the answer is success.
C14_DeletedEventRemovesAll ==
    [][DeletedHandled
         => LET T == calls'[Len(calls')].file_token
            IN  /\ BoundTo(diaries', T) = {}
                /\ diaries' \ BoundTo(diaries', T) = diaries \ BoundTo(diaries, T)
                /\ conversation' = conversation
                /\ last'.resp = Success]_vars

\* C14 amended: the rows bound to T are gone when the lookup and every
\* delete_diary succeed; otherwise exactly the rows whose deletion failed
\* (all of them when the lookup failed) are left, unchanged.  Other rows,
\* the sessions and the answer are as stated.
C14_DeletedEventBestEffort ==
    [][DeletedHandled
         => LET c == calls'[Len(calls')]
                T == c.file_token
            IN  /\ (~c.raised /\ c.failed = {}) => BoundTo(diaries', T) = {}
                /\ BoundTo(diaries', T) =
                      IF c.raised THEN BoundTo(diaries, T)
                      ELSE {r \in BoundTo(diaries, T) : r.id \in c.failed}
                /\ diaries' \ BoundTo(diaries', T) = diaries \ BoundTo(diaries, T)
                /\ conversation' = conversation
                /\ last'.resp = Success]_vars

\* An event for doc_1 was handled without failure: both rows bound to doc_1
\* are gone, the two other rows are there, the answer is success.
C14_Witness ==
    /\ calls # <<>>
    /\ LET c == calls[Len(calls)]
       IN  c.op = "deleted_event" /\ c.file_token = "doc_1"
           /\ ~c.raised /\ c.failed = {}
    /\ BoundTo(SeedDiaries, "doc_1") # {}
    /\ diaries = SeedDiaries \ BoundTo(SeedDiaries, "doc_1")
    /\ last.resp = Success

\* The media keys a composition run of the user has read.
Drained(user_id) ==
    UNION {calls[n].keys : n \in {m \in DOMAIN calls :
                                     /\ calls[m].op = "drain"
                                     /\ calls[m].user_id = user_id}}

\* The media keys a lookup of the pending media of the user returns now.
Pending(user_id) ==
    KeysOf(get_media_files(conversation, user_id, clock, tz, NoFault).media_files)

\* C15 as stated: every media ref added for a user is in the buffer the
\* user's next lookup returns, or a composition run has read it.
C15_MediaKeptUntilDrained ==
    \A n \in DOMAIN calls :
        calls[n].op = "add_media"
        => calls[n].keys \subseteq
              (Pending(calls[n].user_id) \cup Drained(calls[n].user_id))

\* The finish keywords as the specification of analyze_intent lists them.
FinishKeywords == {end_keywords[n] : n \in DOMAIN end_keywords}

\* The text has one of the finish keywords somewhere in it.
HasFinishKeyword(text) ==
    \E kw \in FinishKeywords, a \in 0..Len(text) :
        /\ a + Len(kw) <= Len(text)
        /\ \A n \in 1..Len(kw) : text[a + n] = kw[n]

\* C16: should_generate_diary is true iff the text has a finish keyword in
\* it, the type is "command" iff the text starts with "/" whatever keywords
\* it has, and two calls with the same text give the same result.
C16_IntentIsLexical ==
    /\ \A n \in DOMAIN calls :
          calls[n].op = "analyze_intent"
          => (/\ calls[n].intent.should_generate_diary
                   = HasFinishKeyword(calls[n].message)
              /\ (calls[n].intent.type = "command")
                   = (calls[n].message # <<>> /\ calls[n].message[1] = "/"))
    /\ \A n, m \in DOMAIN calls :
          (/\ calls[n].op = "analyze_intent" /\ calls[m].op = "analyze_intent"
           /\ calls[n].message = calls[m].message)
          => calls[n].intent = calls[m].intent

\* A text that starts with "/" and has a finish keyword in it was
\* classified: a command, with should_generate_diary true.
C16_Witness ==
    \E n \in DOMAIN calls :
        /\ calls[n].op = "analyze_intent"
        /\ calls[n].message = <<"/", "zheng", "li">>
        /\ calls[n].intent = Intent("command", TRUE)

\* C17 as stated: a run of process_message_async whose handler met an
\* exception logged it, sent a chat reply to the user and let no exception
\* out of the task.
C17_ExceptionBecomesReply ==
    \A n \in DOMAIN calls :
        (calls[n].op = "task" /\ calls[n].raised)
        => (calls[n].logged /\ calls[n].replied /\ ~calls[n].escaped)

\* The endpoint is misconfigured, unreachable or answers with an error.
Unavailable == {"no_key", "exception", "status"}

\* No run with this id is under way.
Finished(tid) == \A i \in DOMAIN tasks : tasks[i].tid # tid

\* C18: no call of the language model raises; with the endpoint
\* misconfigured, unreachable or answering an error status the result is
\* the text of the rules, a finished text turn has its assistant reply
\* appended after the user message, and a finished composition run has
\* saved a diary and closed its run.
C18_LlmFallsBack ==
    \A n \in DOMAIN calls :
        calls[n].op = "llm"
        => /\ ~calls[n].raised
           /\ calls[n].endpoint \in Unavailable
                => /\ calls[n].text # NoValue
                   /\ calls[n].text =
                         _mock_response(calls[n].last_message, Today(clock))
                   /\ (Finished(calls[n].tid)
                         /\ calls[n].fn = "generate_guide_question")
                        => \E k \in DOMAIN LogOf(appendLog, calls[n].sid, <<>>) :
                              appendLog[calls[n].sid][k] =
                                 Message("assistant", calls[n].seq + 1)
                   /\ (Finished(calls[n].tid) /\ calls[n].fn = "generate_diary")
                        => /\ \E j \in DOMAIN runs : runs[j].tid = calls[n].tid
                           /\ \E r \in diaries : r.id = Uuid(calls[n].tid)

\* A text turn answered by the rules after a transport exception and a
\* composition run answered by the rules without an API key, both finished.
C18_Witness ==
    /\ \E n \in DOMAIN calls :
          /\ calls[n].op = "llm" /\ calls[n].fn = "generate_guide_question"
          /\ calls[n].endpoint = "exception" /\ calls[n].text = "mock_weather"
          /\ Finished(calls[n].tid)
          /\ Message("assistant", calls[n].seq + 1)
                \in {appendLog[calls[n].sid][k] :
                        k \in DOMAIN LogOf(appendLog, calls[n].sid, <<>>)}
    /\ \E n \in DOMAIN calls :
          /\ calls[n].op = "llm" /\ calls[n].fn = "generate_diary"
          /\ calls[n].endpoint = "no_key" /\ calls[n].text = "mock_today"
          /\ Finished(calls[n].tid)
          /\ \E j \in DOMAIN runs : runs[j].tid = calls[n].tid

\* The row a lookup loads: the first active one of the user and the day.
Loaded(c) == MinOf(ActiveIds(c.before, c.user_id, Today(c.clock)))

\* The lookup loaded a row.
Loads(c) ==
    /\ c.op = "get_or_create_session"
    /\ ~c.f.fetch
    /\ ActiveIds(c.before, c.user_id, Today(c.clock)) # {}

\* updated_at of the loaded row is more than 24 hours before the time of
\* the call.
Stale(c) == c.clock - c.before[Loaded(c)].updated_at > StaleHours

\* The lookup returned a session just created: one row more, active, of
\* today, holding the system message and no media, and that is returned.
ReturnsFresh(c) ==
    /\ Len(c.after) = Len(c.before) + 1
    /\ LET row == c.after[Len(c.after)]
       IN  /\ row.status = "active" /\ row.user_id = c.user_id
           /\ row.session_date = Today(c.clock)
           /\ row.messages = <<SystemMessage>> /\ row.media_files = <<>>
           /\ c.session = Session(row.id, <<SystemMessage>>, <<>>)

\* The lookup returned the loaded session and changed nothing.
ReturnsLoaded(c) ==
    /\ c.after = c.before
    /\ LET row == c.before[Loaded(c)]
       IN  c.session = Session(row.id, row.messages, row.media_files)

ClosedTwice(n) ==
    /\ n + 1 \in DOMAIN calls
    /\ calls[n].op = "close_session" /\ calls[n + 1].op = "close_session"
    /\ calls[n].user_id = calls[n + 1].user_id
    /\ calls[n + 1].before = calls[n].after

\* The active sessions of the user and the day of a call, before it.
ActiveBefore(c) == ActiveIds(c.before, c.user_id, Today(c.clock))

\* C20 as stated: close_session with no active session of today changes no
\* row and returns True, and a second call in a row leaves the table as
\* the first one left it.
C20_CloseIdempotent ==
    \A n \in DOMAIN calls :
        /\ (calls[n].op = "close_session" /\ ActiveBefore(calls[n]) = {})
              => (calls[n].after = calls[n].before /\ calls[n].ok)
        /\ ClosedTwice(n) => calls[n + 1].after = calls[n].after

\* C20 amended: the same for calls whose UPDATE does not fail; a call whose
\* UPDATE fails changes no row and returns False.  A call that succeeds
\* closes the active sessions of today and touches no other row.
C20_CloseIdempotentUnlessError ==
    \A n \in DOMAIN calls :
        LET c == calls[n]
        IN  c.op = "close_session"
            => /\ c.raises => (c.after = c.before /\ ~c.ok)
               /\ ~c.raises
                    => /\ c.ok
                       /\ ActiveBefore(c) = {} => c.after = c.before
                       /\ Len(c.after) = Len(c.before)
                       /\ \A i \in DOMAIN c.before :
                             c.after[i] =
                                IF i \in ActiveBefore(c)
                                THEN [c.before[i] EXCEPT !.status = "closed"]
                                ELSE c.before[i]
               /\ (ClosedTwice(n) /\ ~c.raises /\ ~calls[n + 1].raises)
                    => calls[n + 1].after = c.after

\* Two calls in a row without an error, the first of which closed a
\* session: the second changed nothing and both returned True.
C20_Witness ==
    \E n \in DOMAIN calls :
        /\ ClosedTwice(n)
        /\ ActiveBefore(calls[n]) # {}
        /\ calls[n].ok /\ calls[n + 1].ok
        /\ calls[n].after # calls[n].before
        /\ calls[n + 1].after = calls[n].after
        /\ conversation = calls[n + 1].after

\* The request just handled parsed to an object whose payload (the body's
\* own, or the decrypted one) has a challenge key.
ChallengeHandled ==
    /\ served' # served
    /\ last'.body.json = "object"
    /\ EventData(last'.body).challenge # NoValue

\* C21: a payload with a challenge key is answered with that challenge and
\* nothing else happens: no dedup entry, no task, no change of a session
\* or a diary, whatever event the payload carries besides.
C21_ChallengeIsTerminal ==
    [][ChallengeHandled
         => (/\ last'.resp = ChallengeEcho(EventData(last'.body).challenge)
             /\ ~last'.scheduled
             /\ processed_messages' = processed_messages
             /\ background_tasks' = background_tasks
             /\ deliveries' = deliveries
             /\ conversation' = conversation
             /\ diaries' = diaries
             /\ calls' = calls)]_vars

\* A payload with a challenge and a message event was answered with the
\* challenge; no task is scheduled and no id recorded.
C21_Witness ==
    /\ served > 0
    /\ last.body.json = "object"
    /\ EventData(last.body).challenge = "ch_1"
    /\ EventData(last.body).event_type = "im.message.receive_v1"
    /\ last.resp = ChallengeEcho("ch_1")
    /\ background_tasks = <<>> /\ processed_messages = <<>>

\* The text after strip() starts with "/" and has a word after it.
HasCommandWord(content) ==
    /\ StartsWith(Strip(content), <<"/">>)
    /\ FirstWord(Tail(Strip(content))) # <<>>

CommandWord(content) == FirstWord(Tail(Strip(content)))

\* Nothing happened to the sessions, the pending media and the diaries
\* since the text was handled, and no run was started.
Untouched(c) ==
    /\ conversation = c.conversation
    /\ diaries = c.diaries
    /\ tasks = <<>> /\ runs = <<>>
    /\ events = c.events

\* C22 as stated: a text starting with "/" whose first token is none of the
\* eight commands gives an error result that echoes the token, changes no
\* state and starts no composition.
C22_UnknownCommand ==
    \A n \in DOMAIN calls :
        (/\ calls[n].op = "handle_text"
         /\ HasCommandWord(calls[n].message)
         /\ CommandWord(calls[n].message) \notin Commands)
        => (/\ calls[n].result = Result(1, "unknown_command",
                                        CommandWord(calls[n].message))
            /\ Untouched(calls[n]))

\* C22 amended: the token is compared and echoed in lower case; a text
\* with no token after "/" gives an error result with no token.
C22_UnknownCommandLowered ==
    \A n \in DOMAIN calls :
        LET c == calls[n]
        IN  (c.op = "handle_text" /\ StartsWith(Strip(c.message), <<"/">>))
            => /\ (/\ HasCommandWord(c.message)
                   /\ Lower(CommandWord(c.message)) \notin Commands)
                    => (/\ c.result = Result(1, "unknown_command",
                                             Lower(CommandWord(c.message)))
                        /\ Untouched(c))
               /\ ~HasCommandWord(c.message)
                    => (c.result = Result(1, "failed", <<>>) /\ Untouched(c))
               /\ (/\ HasCommandWord(c.message)
                   /\ Lower(CommandWord(c.message)) \in Commands)
                    => c.result.handler # "none"

\* An unknown command holding a finish keyword was answered with the error
\* and the session with its pending media is as it was.
C22_Witness ==
    \E n \in DOMAIN calls :
        /\ calls[n].op = "handle_text"
        /\ calls[n].message = <<"/", "zheng", "li">>
        /\ calls[n].result = Result(1, "unknown_command", <<"zheng", "li">>)
        /\ conversation # <<>>
        /\ conversation[1].media_files # <<>>
        /\ Untouched(calls[n])

NotSystem(m) == m.role # "system"

\* The last n entries of s.
LastN(s, n) == SubSeq(s, Len(s) - n + 1, Len(s))

\* The media keys the rows of the user hold.
Stored(user_id) ==
    UNION {KeysOf(conversation[id].media_files) :
              id \in {j \in DOMAIN conversation :
                         conversation[j].user_id = user_id}}

\* C23: with the runs of one user interleaved at their awaits, every
\* message given to add_message is in the row it was added to (but for the
\* oldest ones compaction drops), in the order of the calls, and every
\* media ref given to add_media_to_context is in a row of the user or was
\* read by a composition run.
C23_NoLostUpdate ==
    /\ \A id \in DOMAIN conversation :
          LET appended == LogOf(appendLog, id, <<>>)
              kept     == SelectSeq(conversation[id].messages, NotSystem)
          IN  /\ Len(kept) <= Len(appended)
              /\ kept = LastN(appended, Len(kept))
              /\ Len(kept) >= MinOf({Len(appended), KeepRecent})
    /\ \A n \in DOMAIN calls :
          calls[n].op = "add_media"
          => calls[n].keys \subseteq
                (Stored(calls[n].user_id) \cup Drained(calls[n].user_id))

\* A chat run waits for its guiding question with a transcript older than
\* the row it read it from: a media run added to the row meanwhile.
C23_Witness ==
    \E i \in DOMAIN tasks :
        /\ tasks[i].kind = "chat" /\ tasks[i].pc = "llm"
        /\ conversation[tasks[i].sid].status = "active"
        /\ Len(conversation[tasks[i].sid].messages) > Len(tasks[i].context) + 1
        /\ conversation[tasks[i].sid].media_files # <<>>
        /\ \E j \in DOMAIN tasks : j # i /\ tasks[j].user_id = tasks[i].user_id

\* The lines of a body that are not blank, stripped, in line order.
NotBlank(line) == line # <<>>

NonBlank(lines) ==
    SelectSeq([n \in DOMAIN lines |-> Strip(lines[n])], NotBlank)

\* The number of "#" a line starts with.
RECURSIVE Hashes(_)
Hashes(line) ==
    IF line # <<>> /\ Head(line) = "#" THEN 1 + Hashes(Tail(line)) ELSE 0

\* C24 as stated: one block per non-blank line, in line order; 1, 2 or 3
\* leading "#" give a heading of that level without the marker, every other
\* line gives a paragraph with the text of the line.
C24_BlockPerLine ==
    \A n \in DOMAIN calls :
        calls[n].op = "convert"
        => LET lines == NonBlank(Split(calls[n].content))
           IN  /\ Len(calls[n].blocks) = Len(lines)
               /\ \A k \in DOMAIN lines :
                     LET h == Hashes(lines[k])
                     IN  IF h \in 1..3
                         THEN /\ calls[n].blocks[k].block_type = h + 2
                              /\ Strip(calls[n].blocks[k].content)
                                    = Strip(From(lines[k], h + 1))
                         ELSE calls[n].blocks[k] = TextBlock(2, lines[k])

\* C24 amended: the marker of a heading is 1, 2 or 3 "#" and the blank
\* after them; the heading carries what follows that blank, a paragraph
\* carries the stripped line.
C24_BlockPerLineMarked ==
    \A n \in DOMAIN calls :
        calls[n].op = "convert"
        => LET lines == NonBlank(Split(calls[n].content))
           IN  /\ Len(calls[n].blocks) = Len(lines)
               /\ \A k \in DOMAIN lines :
                     LET h == Hashes(lines[k])
                     IN  IF h \in 1..3 /\ Len(lines[k]) > h
                                       /\ lines[k][h + 1] = " "
                         THEN /\ calls[n].blocks[k].block_type = h + 2
                              /\ calls[n].blocks[k].content
                                    = From(lines[k], h + 2)
                              /\ calls[n].blocks[k].content # <<>>
                         ELSE calls[n].blocks[k] = TextBlock(2, lines[k])

\* A body of a heading line and a blank line gave the one heading.
C24_Witness ==
    /\ Len(calls) = 2
    /\ calls[2].op = "convert"
    /\ calls[2].content = <<"#", " ", "x", "\n", " ">>
    /\ calls[2].blocks = <<TextBlock(3, <<"x">>)>>

\* C25: a row with one system message holds at most 20 messages, the
\* system message among them, and its other messages are the most recent
\* ones appended to it, in the order they were appended.
C25_BoundedLog ==
    \A id \in DOMAIN conversation :
        LET messages == conversation[id].messages
            appended == LogOf(appendLog, id, <<>>)
            others   == SelectSeq(messages, IsNotSystem)
        IN  Len(SelectSeq(messages, IsSystem)) = 1
            => (/\ Len(messages) <= CompactAbove
                /\ \E n \in DOMAIN messages : IsSystem(messages[n])
                /\ Len(others) <= Len(appended)
                /\ \A n \in DOMAIN others :
                      others[n]
                          = appended[Len(appended) - Len(others) + n])

\* A row was compacted at its 21st message (the system message and 20
\* appended ones) and has taken one more: it holds 20 messages, the oldest
\* two appended are gone.
C25_Witness ==
    \E id \in DOMAIN conversation :
        /\ Len(LogOf(appendLog, id, <<>>)) = 21
        /\ Len(conversation[id].messages) = 20
        /\ IsSystem(conversation[id].messages[1])
        /\ conversation[id].messages[2] = appendLog[id][3]

\* The requests of the publish run so far.
Steps == {n \in DOMAIN calls : calls[n].op = "step"}

ImageSteps == <<"block", "download", "upload", "bind">>

Rank(step) == CHOOSE r \in DOMAIN ImageSteps : ImageSteps[r] = step

\* C26: permission and image steps only after the document was created,
\* the permission request before every image step, the images one at a
\* time in the order given, the steps of an image in the order block,
\* download, upload, bind, each only after the one before it succeeded; a
\* block is bound only when all four steps succeeded, by the one bind.
C26_StepsOrdered ==
    /\ \A n \in Steps :
          (calls[n].step = "permission" \/ calls[n].image > 0)
          => (/\ document.created
              /\ \E m \in Steps : m < n /\ calls[m].step = "create")
    /\ \A n \in Steps :
          calls[n].image > 0
          => \E m \in Steps : m < n /\ calls[m].step = "permission"
    /\ \A n, m \in Steps :
          (n < m /\ calls[n].image > 0 /\ calls[m].image > 0)
          => \/ calls[n].image < calls[m].image
             \/ /\ calls[n].image = calls[m].image
                /\ Rank(calls[n].step) < Rank(calls[m].step)
    /\ \A n \in Steps :
          (calls[n].image > 0 /\ Rank(calls[n].step) > 1)
          => (/\ calls[n - 1].op = "step"
              /\ calls[n - 1].image = calls[n].image
              /\ Rank(calls[n - 1].step) = Rank(calls[n].step) - 1
              /\ attempts[calls[n].image][Rank(calls[n].step) - 1] = "ok")
    /\ \A j \in DOMAIN attempts :
          Cardinality({n \in Steps : calls[n].image = j}) = Len(attempts[j])
    /\ \A b \in DOMAIN document.blocks :
          /\ attempts[document.blocks[b].image][1] = "ok"
          /\ document.blocks[b].bound
                => attempts[document.blocks[b].image]
                       = <<"ok", "ok", "ok", "ok">>
          /\ \A c \in DOMAIN document.blocks :
                document.blocks[c].image = document.blocks[b].image => c = b

\* A run over two images is done: the upload of the first failed and its
\* block is unbound, the second is bound.
C26_Witness ==
    /\ publish.pc = "done"
    /\ Len(attempts) = 2
    /\ attempts[1] = <<"ok", "ok", "status">>
    /\ attempts[2] = <<"ok", "ok", "ok", "ok">>
    /\ document.blocks = <<Block(1, FALSE), Block(2, TRUE)>>
    /\ \E n \in Steps : calls[n].step = "permission"

IsUser(m) == m.role = "user"

\* C27 as stated: a composition run goes on to compose only from a
\* transcript with a user message in it; a run that found none only
\* replies: no diary row of it exists and its session is active.
C27_ComposeNeedsUserMessage ==
    \A i \in DOMAIN tasks :
        /\ tasks[i].kind = "compose"
              => SelectSeq(tasks[i].context, IsUser) # <<>>
        /\ tasks[i].kind = "empty"
              => (/\ SelectSeq(tasks[i].context, IsUser) = <<>>
                  /\ \A r \in diaries : r.id # Uuid(tasks[i].tid)
                  /\ conversation[tasks[i].sid].status = "active")

\* The remote delete of a /delete run has just returned.
RemoteReturned ==
    /\ Len(calls') = Len(calls) + 1
    /\ calls'[Len(calls')].op = "delete_document"

\* A /delete run has just deleted its rows and returned.
CommandReturned ==
    /\ Len(calls') = Len(calls) + 1
    /\ calls'[Len(calls')].op = "cmd_delete"

\* C28 as stated: the remote delete changes no diary row; the command
\* then leaves no row bound to the document, whatever the remote outcome,
\* and its code is 0 exactly when the remote delete succeeded.
C28_DeleteCascades ==
    [][/\ RemoteReturned => diaries' = diaries
       /\ CommandReturned
            => LET c == calls'[Len(calls')]
               IN  /\ BoundTo(diaries', c.document_id) = {}
                   /\ diaries' \ BoundTo(diaries', c.document_id)
                         = diaries \ BoundTo(diaries, c.document_id)
                   /\ c.code = (IF c.doc_success THEN 0 ELSE 1)]_vars

\* C28 amended: the rows bound to the document are deleted but for those
\* whose DELETE failed, and none when the lookup failed.
C28_DeleteCascadesBestEffort ==
    [][/\ RemoteReturned => diaries' = diaries
       /\ CommandReturned
            => LET c == calls'[Len(calls')]
               IN  /\ BoundTo(diaries', c.document_id)
                         = (IF c.raised THEN BoundTo(diaries, c.document_id)
                            ELSE {r \in BoundTo(diaries, c.document_id) :
                                     r.id \in c.failed})
                   /\ diaries' \ BoundTo(diaries', c.document_id)
                         = diaries \ BoundTo(diaries, c.document_id)
                   /\ c.code = (IF c.doc_success THEN 0 ELSE 1)]_vars

\* /delete doc_1 returned code 1 after a failed remote delete and no
\* database error: the two rows bound to doc_1 are gone, the others stay.
C28_Witness ==
    /\ Len(calls) = 2
    /\ calls[2].op = "cmd_delete"
    /\ calls[2].document_id = "doc_1"
    /\ ~calls[2].doc_success /\ calls[2].code = 1
    /\ ~calls[2].raised /\ calls[2].failed = {}
    /\ diaries = {r \in SeedDiaries : r.document_id # "doc_1"}
    /\ Cardinality(diaries) = 2

\* The latest user turn of a prompt, <<>> when it has none.
LatestTurn(messages) ==
    LET users == {n \in DOMAIN messages : messages[n].role = "user"}
    IN  IF users = {} THEN <<>>
        ELSE messages[CHOOSE n \in users : \A k \in users : k <= n].content

HasLookupKeyword(turn) ==
    \E n \in DOMAIN search_keywords :
        \E k \in 1..(Len(turn) - Len(search_keywords[n]) + 1) :
            SubSeq(turn, k, k + Len(search_keywords[n]) - 1)
                = search_keywords[n]

NoteInjected(c) == \E n \in DOMAIN c.prompt : c.prompt[n] = SearchNote

\* C29 as stated: the note is injected exactly when the latest user turn
\* has a lookup keyword and is not longer than 100 characters.
C29_NoteUpTo100 ==
    \A n \in DOMAIN calls :
        calls[n].op = "chat_with_internet"
        => (NoteInjected(calls[n])
              <=> (/\ HasLookupKeyword(LatestTurn(calls[n].messages))
                   /\ Len(LatestTurn(calls[n].messages)) <= 100))

\* C29 amended: the note is injected exactly when the latest user turn has
\* a lookup keyword and is shorter than 100 characters; the prompt is the
\* messages given, with the note at the end when it is injected.
C29_NoteBelow100 ==
    \A n \in DOMAIN calls :
        calls[n].op = "chat_with_internet"
        => (/\ NoteInjected(calls[n])
                 <=> (/\ HasLookupKeyword(LatestTurn(calls[n].messages))
                      /\ Len(LatestTurn(calls[n].messages)) < 100)
            /\ calls[n].prompt
                 = (IF NoteInjected(calls[n])
                    THEN Append(calls[n].messages, SearchNote)
                    ELSE calls[n].messages))

\* A turn of 99 characters with a keyword got the note.
C29_Witness ==
    /\ Len(calls) = 2
    /\ calls[2].op = "chat_with_internet"
    /\ Len(LatestTurn(calls[2].messages)) = 99
    /\ HasLookupKeyword(LatestTurn(calls[2].messages))
    /\ NoteInjected(calls[2])
    /\ Len(calls[2].prompt) = Len(calls[2].messages) + 1

\* The run of a /new has just returned.
NewReturned ==
    /\ tasks # <<>> /\ tasks[1].kind = "new"
    /\ tasks' = <<>>

RolesOf(messages) == [n \in DOMAIN messages |-> messages[n].role]

\* C30 as stated: when the run of /new returns, the user has one active
\* session for the day of the /new: it holds the system message and the
\* welcome, and no pending media; the sessions of that day that were there
\* before are closed.
C30_NewSessionFresh ==
    [][NewReturned
         => LET u == tasks[1].user_id
                D == conversation[tasks[1].sid].session_date
                active == ActiveIds(conversation', u, D)
            IN  /\ Cardinality(active) = 1
                /\ \A s \in active :
                      /\ RolesOf(conversation'[s].messages)
                            = <<"system", "assistant">>
                      /\ conversation'[s].media_files = <<>>
                /\ \A j \in DOMAIN conversation' :
                      (/\ j < tasks[1].sid
                       /\ conversation'[j].user_id = u
                       /\ conversation'[j].session_date = D)
                      => conversation'[j].status = "closed"]_vars

\* A composition run has just read and cleared the pending media.
MediaDrained ==
    /\ Len(calls') = Len(calls) + 1
    /\ calls'[Len(calls')].op = "drain"

\* C31 as stated: every media item a composition run reads from the
\* pending media, image or video, is among the images the run hands to the
\* document publisher.
C31_AcknowledgedMediaPublished ==
    [][MediaDrained
         => \E i \in DOMAIN tasks' :
               /\ tasks'[i].kind = "compose" /\ tasks'[i].pc = "publish"
               /\ calls'[Len(calls')].keys
                     \subseteq KeysOf(tasks'[i].images)]_vars

\* C32 as stated: no two composition runs read their transcript from the
\* same session row: a row is the source of at most one diary row and at
\* most one document.
C32_OneDiaryPerSession ==
    \A a, b \in DOMAIN runs :
        (runs[a].sid = runs[b].sid /\ a # b)
        => (runs[a].rows = {} \/ runs[b].rows = {})

\* C33 as stated: the user messages of the row a composition run read its
\* transcript from, as the row is when the run has closed it, are all in
\* that transcript.
C33_TranscriptComplete ==
    \A a \in DOMAIN runs :
        \A n \in DOMAIN runs[a].row.messages :
            runs[a].row.messages[n].role = "user"
            => \E k \in DOMAIN runs[a].context :
                  runs[a].context[k] = runs[a].row.messages[n]

\* C34 as stated: the row a composition run composed from and closed holds
\* no pending media.
C34_ClosedSessionHoldsNoMedia ==
    \A a \in DOMAIN runs :
        runs[a].row.status = "closed" => runs[a].row.media_files = <<>>

\* C35 as stated: a composition run past the empty-transcript check has
\* cleared the pending media of its session by the time the document call
\* starts, and returns with that session cleared and closed, whatever the
\* document call returned.
C35_RunClearsAndCloses ==
    /\ \A i \in DOMAIN tasks :
          (tasks[i].kind = "compose" /\ tasks[i].pc = "publish")
          => conversation[tasks[i].sid].media_files = <<>>
    /\ \A j \in DOMAIN runs :
          /\ runs[j].row.media_files = <<>>
          /\ runs[j].row.status = "closed"

\* C36 as stated: the rows a /delete run removes belong to the user who
\* sent the command.
C36_DeleteOwnRowsOnly ==
    [][CommandReturned
         => \A r \in diaries \ diaries' :
               \E i \in DOMAIN tasks :
                  /\ tasks[i].kind = "delete"
                  /\ i \notin DOMAIN tasks' \/ tasks'[i] # tasks[i]
                  /\ tasks[i].user_id = r.user_id]_vars

\* C37: a closed row stays as it is: its status, its messages and its
\* pending media never change again, whatever runs of the user are in
\* flight.
C37_ClosedRowsAreFrozen ==
    [][\A id \in DOMAIN conversation :
          conversation[id].status = "closed"
          => (/\ id \in DOMAIN conversation'
              /\ conversation'[id].status = "closed"
              /\ conversation'[id].messages = conversation[id].messages
              /\ conversation'[id].media_files
                    = conversation[id].media_files)]_vars

\* A row was closed with a user message in it, and the session after it
\* has taken a message and a media item since.
C37_Witness ==
    /\ Len(conversation) = 2
    /\ conversation[1].status = "closed"
    /\ Len(conversation[1].messages) >= 2
    /\ conversation[2].status = "active"
    /\ Len(conversation[2].messages) >= 2
    /\ conversation[2].media_files # <<>>

\* C38: sessions are isolated by calendar day.  The document of a
\* composition run is dated with the day read when the diary text has come
\* back (today of generate_diary, the step that also reads the pending
\* media); the transcript it is written from was read before the text was
\* awaited.  As stated: the session the transcript came from is the
\* session of the day the document is dated with.
C38_DocumentOfTheSessionDay ==
    [][MediaDrained
          => \A i \in DOMAIN tasks :
                (/\ tasks[i].kind = "compose"
                 /\ tasks[i].pc = "llm"
                 /\ i \in DOMAIN tasks'
                 /\ tasks'[i].pc = "publish")
                => conversation[tasks[i].sid].session_date = Today(clock)]_vars

\* C39: with the endpoint misconfigured, unreachable or answering an error
\* status, the text generate_diary returns does not depend on the
\* transcript: any two such calls return the same text, the answer of the
\* rules to the compose request.
C39_FallbackIgnoresTranscript ==
    \A a, b \in DOMAIN calls :
        (/\ calls[a].op = "generate_diary" /\ calls[b].op = "generate_diary"
         /\ calls[a].endpoint \in Unavailable
         /\ calls[b].endpoint \in Unavailable)
        => /\ ~calls[a].raised
           /\ calls[a].text = calls[b].text
           /\ calls[a].text = _mock_response(DiaryPrompt, Today(clock))

\* Two calls without a usable endpoint, on transcripts whose own latest
\* user messages ask for the weather and for the date, returned the same
\* text.
C39_Witness ==
    /\ Len(calls) = 2
    /\ calls[1].op = "generate_diary" /\ calls[2].op = "generate_diary"
    /\ calls[1].endpoint = "no_key" /\ calls[2].endpoint = "status"
    /\ LastMessage(calls[1].context) = <<"tian", "qi4">>
    /\ LastMessage(calls[2].context) = <<"ri", "qi1">>
    /\ _mock_response(LastMessage(calls[1].context), Today(clock))
          # _mock_response(LastMessage(calls[2].context), Today(clock))
    /\ calls[1].text = calls[2].text
    /\ calls[1].text = "mock_today"

\* C5 as stated: a composition run on a session with turns whose document
\* was published returns with that session's pending media empty, the
\* session closed, and exactly one diary row of the run, which carries a
\* document id.
C5_CompositionCompletes ==
    \A j \in DOMAIN runs :
        (Len(runs[j].context) > 1 /\ runs[j].document_id # NoValue)
        => (/\ runs[j].row.media_files = <<>>
            /\ runs[j].row.status = "closed"
            /\ Cardinality(runs[j].rows) = 1
            /\ \A r \in runs[j].rows : r.document_id # NoValue)

\* The session of run j was closed by the time the run returned.
ClosedBy(j) == runs[j].row.status = "closed"

\* C6 as stated: once a composition run has closed a session, a new
\* session of the same user and day is created only after the 24 hours of
\* the staleness test have passed since the closed session's last update.
C6_NewSessionOnlyWhenStale ==
    \A j \in DOMAIN runs :
        ClosedBy(j) =>
            \A id \in (runs[j].n + 1)..Len(conversation) :
                (/\ conversation[id].user_id = runs[j].user_id
                 /\ conversation[id].session_date = runs[j].row.session_date)
                => conversation[id].born - runs[j].row.updated_at > StaleHours

\* The step starts a handler for a user whose session of today a
\* composition run has closed and who has no active session today.
StartsAfterClose ==
    /\ events' = events + 1
    /\ LET user_id == tasks'[Len(tasks')].user_id
       IN  /\ ActiveIds(conversation, user_id, Today(clock)) = {}
           /\ \E j \in DOMAIN runs :
                 /\ ClosedBy(j)
                 /\ runs[j].user_id = user_id
                 /\ runs[j].row.session_date = Today(clock)

\* C6 amended: once a composition run has closed a session, the next
\* lookup of the same user on the same day creates a new active session at
\* once, holding the system message alone, whatever the time since the
\* closed session's last update; the closed session stays as it was.
C6_NewSessionAtOnce ==
    [][StartsAfterClose =>
          LET id == Len(conversation) + 1
          IN  /\ Len(conversation') = id
              /\ conversation'[id].user_id = tasks'[Len(tasks')].user_id
              /\ conversation'[id].session_date = Today(clock)
              /\ conversation'[id].status = "active"
              /\ conversation'[id].born = clock
              /\ conversation'[id].messages
                    = <<SystemMessage>> \o LogOf(appendLog', id, <<>>)
              /\ Len(conversation'[id].messages) <= 2
              /\ tasks'[Len(tasks')].sid = id
              /\ \A k \in 1..Len(conversation) :
                    conversation'[k] = conversation[k]]_vars

\* A session created on the day of a session closed by composition, within
\* the staleness window of it.
C6_Witness ==
    \E j \in DOMAIN runs :
        /\ ClosedBy(j)
        /\ \E id \in (runs[j].n + 1)..Len(conversation) :
              /\ conversation[id].user_id = runs[j].user_id
              /\ conversation[id].session_date = runs[j].row.session_date
              /\ conversation[id].status = "active"
              /\ conversation[id].born - runs[j].row.updated_at <= StaleHours

\* Image k is bound to the placeholder block created for it.
IsBound(k) ==
    \E b \in DOMAIN document.blocks : document.blocks[b] = Block(k, TRUE)

\* Some step of image k failed.
FailedAt(k) ==
    \E s \in DOMAIN attempts[k] : attempts[k][s] # "ok"

\* No step other than a download failed.
OnlyDownloadsFailed ==
    \A k \in DOMAIN attempts :
        \A s \in DOMAIN attempts[k] : attempts[k][s] # "ok" => s = 2

\* C9: when the publisher has gone through the images and nothing but
\* downloads failed, every image with its keys was tried, every image whose
\* download succeeded is bound to its block, and the call returns the
\* document.
C9_DownloadFailureIsLocal ==
    (publish.pc = "done" /\ publish.attach /\ OnlyDownloadsFailed)
    => (/\ publish.result # NoValue
        /\ \A k \in DOMAIN publish.images :
              publish.images[k].complete
              => (/\ Len(attempts[k]) >= 2
                  /\ (attempts[k][2] = "ok"
                         => (attempts[k] = <<"ok", "ok", "ok", "ok">>
                             /\ IsBound(k)))))

\* Image 2 of 3 failed to download, images 1 and 3 are bound.
C9_Witness ==
    /\ publish.pc = "done"
    /\ Len(publish.images) = 3
    /\ OnlyDownloadsFailed
    /\ Len(attempts[2]) = 2 /\ attempts[2][2] # "ok"
    /\ IsBound(1) /\ IsBound(3) /\ ~IsBound(2)
    /\ publish.result # NoValue

\* C10 as stated: whichever step of an image failed and however, the
\* images after it are still tried and the call returns the document.
C10_FailureNeverAborts ==
    (publish.pc = "done" /\ publish.attach)
    => \A k \in DOMAIN publish.images :
          FailedAt(k)
          => (/\ publish.result # NoValue
              /\ \A j \in (k + 1)..Len(publish.images) :
                    publish.images[j].complete => Len(attempts[j]) >= 1)

====
